---- MODULE Spec2Model ----
(***************************************************************************)
(* Verification model of nxclaw:                                           *)
(*   - LaneQueue              (src/runtime/lane-queue.js)                  *)
(*   - BackgroundTaskManager  (src/tasks/background-manager.js)            *)
(*   - writeFileAtomic        (utils/fs.js)                                *)
(*   - AutonomousLoop, NxClawRuntime (src/runtime/nxclaw-runtime.js),      *)
(*     MemoryStore                                                         *)
(* Every await of the JavaScript code is a point where another handler may *)
(* run, so every action below is the synchronous stretch of code between   *)
(* two awaits.                                                             *)
(***************************************************************************)
EXTENDS Integers, Sequences, FiniteSets, TLC

\* ---------------------------------------------------------------- bounds
MaxCb == 4          \* callbacks handed to LaneQueue.enqueue in one run
MaxDepthCap == 2    \* the queue is constructed with maxDepth in 1..MaxDepthCap

MaxTasks == 2       \* tasks the manager ever holds in one run
MaxConc == 1        \* the manager is constructed with maxConcurrentProcesses = MaxConc
MaxRetriesCap == 1   \* a task's maxRetries is in 0..MaxRetriesCap
MaxDedupeCalls == 3  \* runCommand calls made with dedupeRunning
MaxWriters == 2     \* writeFileAtomic calls on one path
FullLen == 2        \* chunks a complete file content is written in
MaxFailuresCap == 2 \* largest maxConsecutiveFailures the loop is configured with
MaxReconfigs == 2   \* applyConfig calls
MaxSkips == 1       \* ticks skipped
MaxRequests == 2    \* handleIncoming calls in one run
MaxSessionLanes == 3 \* this.maxSessionLanes
MaxKeyLen == 2      \* characters of a session key
MaxEntries == 2     \* addConversation calls in one run
MaxTurns == 4       \* turns appended in one run of the duplicate scenario
RecentWindow == 2   \* the entries shouldSkipConversationEntry looks back
                    \* over, recentEntries.slice(-120), scaled down
MaxClock == 3       \* the clock advances in steps of 3 hours, up to 9 hours
MaxObjectives == 2  \* ObjectiveQueue.add calls
MaxUpdates == 2     \* ObjectiveQueue.update calls
MaxReloads == 1     \* ObjectiveQueue.reload calls
MaxTickOps == 2     \* ObjectiveQueue.markPicked and expireStale calls
MaxPersists == 4    \* BackgroundTaskManager.persist calls
MaxWrites == 2      \* markdown writes (appendDailyLog, appendSessionMemory)
MaxSyncs == 2       \* syncKnowledgeIndex calls that start a sync
MaxWatchEvents == 2 \* queueWatchSync calls
MaxRoots == 2       \* roots startKnowledgeWatchers goes through
MaxSessionsCap == 2 \* largest maxSessions of a ChromeController
MaxChromeCalls == 3 \* openSession and closeSession calls of a ChromeController
KeepRecentRaw == 1  \* keepRecentRaw of MemoryStore.compact (80 in the code)
CompactSlack == 1   \* entries over keepRecentRaw that start no compaction (20)
BatchSize == 2      \* batchSize of MemoryStore.compact (250 in the code)
MaxCompactions == 2 \* MemoryStore.compact calls
MaxEvents == 4      \* RuntimeEventBus.emit calls
BufferSize == 2     \* bufferSize of the RuntimeEventBus (at least 100 in the code)
MaxListeners == 2   \* listeners of the RuntimeEventBus
MaxPromptRetriesCap == 2  \* largest maxPromptRetries of a runtime
MaxOverflowCap == 1       \* largest maxOverflowCompactionAttempts of a runtime
MaxPromptRuns == 2        \* runPromptWithRetry calls on one session

LaneKeys == {"laneA", "laneB"}
\* the session keys handleIncoming is called with, in a fixed order
KeyOrder == <<"laneA", "laneB", "laneC", "laneD">>
SessionKeys == {KeyOrder[i] : i \in 1..Len(KeyOrder)}
CbIds == 1..MaxCb
Tasks == 1..MaxTasks

VARIABLES
  \* LaneQueue
  lanes,        \* this.lanes: lane key -> lane object (0 = no entry); a lane
                \* object is named by the callback whose enqueue created it
  laneDepth,    \* lane.depth of each lane object
  laneActive,   \* lane.active of each lane object
  lanePromise,  \* lane.promise of each lane object: the callback whose run it
                \* wraps (0 = the initial Promise.resolve())
  totalDepth,   \* this.totalDepth
  maxDepth,     \* this.maxDepth
  cbState,      \* each enqueue call: "none" | "overflow" | "waiting" |
                \* "running" | "returned" | "threw" | "skipped"
  cbKey,        \* lane key of each enqueue call
  cbLane,       \* lane object captured by the closure of each enqueue call
  cbPred,       \* lane.promise the closure was chained on (0 = resolved)
  nextCb,       \* next unused callback id
  \* BackgroundTaskManager
  mgr,          \* the manager object: its fields, the child processes and
                \* timers it has created, and the continuations of its async
                \* methods that are suspended at an await
  \* utils/fs.js
  fs,           \* the files under one state path, the writeFileAtomic calls
                \* on it, and whether the process is alive
  \* AutonomousLoop
  loop,         \* the loop object, its interval timer and its tick in flight
  \* NxClawRuntime
  rt,           \* the runtime's session maps, its handleIncoming calls, the
                \* microtask queue of the event loop
  \* MemoryStore
  mem,          \* the raw entries, the session and daily files, the index
                \* built from them, and the last search made
  \* ObjectiveQueue
  oq,           \* this.objectives, the objectives file, and the add, update
                \* and reload calls suspended at an await
  \* ChromeController
  chrome,       \* this.browser, this.sessions, the browsers running, and the
                \* openSession and closeSession calls suspended at an await
  \* RuntimeEventBus
  bus,          \* seq, the ring, the pending events, the flush timer and the
                \* flush in flight, the events file, and what the listeners
                \* were called with
  \* NxClawRuntime.runPromptWithRetry
  run,          \* the runPromptWithRetry call of a lane: its counters, its
                \* await, and the session.prompt calls still executing
  \* BackgroundTaskManager.persist
  chain,        \* this.persistChain as the promises persist() has chained,
                \* the write of each, and this.persistTimer
  \* MemoryStore: knowledge index and watchers
  kidx          \* indexDirty, syncInFlight, the watch timer, the watchers,
                \* closed, and the markdown files as versions

laneVars == <<lanes, laneDepth, laneActive, lanePromise, totalDepth, maxDepth,
              cbState, cbKey, cbLane, cbPred, nextCb>>

vars == <<laneVars, mgr, fs, loop, rt, mem, oq, chrome, bus, run, chain, kidx>>

\* what the methods of one component leave alone
notLane == <<mgr, fs, loop, rt, mem, oq, chrome, bus, run, chain, kidx>>
notMgr == <<laneVars, fs, loop, rt, mem, oq, chrome, bus, run, chain, kidx>>
notFs == <<laneVars, mgr, loop, rt, mem, oq, chrome, bus, run, chain, kidx>>
notLoop == <<laneVars, mgr, fs, rt, mem, oq, chrome, bus, run, chain, kidx>>
notRt == <<mgr, fs, loop, mem, oq, chrome, bus, run, chain, kidx>>
notMem == <<laneVars, mgr, fs, loop, rt, oq, chrome, bus, run, chain, kidx>>
notOq == <<laneVars, mgr, fs, loop, rt, mem, chrome, bus, run, chain, kidx>>
notChrome == <<laneVars, mgr, fs, loop, rt, mem, oq, bus, run, chain, kidx>>
notBus == <<laneVars, mgr, fs, loop, rt, mem, oq, chrome, run, chain, kidx>>
notRun == <<laneVars, mgr, fs, loop, rt, mem, oq, chrome, bus, chain, kidx>>
notChain == <<laneVars, mgr, fs, loop, rt, mem, oq, chrome, bus, run, kidx>>
notKidx == <<laneVars, mgr, fs, loop, rt, mem, oq, chrome, bus, run, chain>>

\* ------------------------------------------------------------ LaneQueue

\* Math.max(1, toNumber(maxDepth, 100))
ClampMaxDepth(n) == IF n < 1 THEN 1 ELSE n

InitLane ==
  /\ lanes = [k \in LaneKeys |-> 0]
  /\ laneDepth = [o \in CbIds |-> 0]
  /\ laneActive = [o \in CbIds |-> 0]
  /\ lanePromise = [o \in CbIds |-> 0]
  /\ totalDepth = 0
  /\ maxDepth \in {ClampMaxDepth(n) : n \in 0..MaxDepthCap}
  /\ cbState = [c \in CbIds |-> "none"]
  /\ cbKey = [c \in CbIds |-> "laneA"]
  /\ cbLane = [c \in CbIds |-> 0]
  /\ cbPred = [c \in CbIds |-> 0]
  /\ nextCb = 1

\* Math.max(0, n - 1)
DecFloor(n) == IF n - 1 < 0 THEN 0 ELSE n - 1

OverflowOffByOne(depth, max) == depth > max
\* the overflow test of enqueue
Overflow(depth, max) == depth >= max

RunSettled(c) == cbState[c] \in {"returned", "threw", "skipped"}
RunRejected(c) == cbState[c] \in {"threw", "skipped"}

ChainPromiseNoCatch(c) ==
  IF c = 0 THEN "fulfilled"
  ELSE IF ~RunSettled(c) THEN "pending"
  ELSE IF RunRejected(c) THEN "rejected" ELSE "fulfilled"
\* lane.promise = run.catch(() => undefined): pending while the run is
\* unsettled, fulfilled afterwards whether the run fulfilled or rejected
ChainPromise(c) ==
  IF c = 0 THEN "fulfilled"
  ELSE IF ~RunSettled(c) THEN "pending" ELSE "fulfilled"

LastAccepted ==
  LET acc == {c \in CbIds : cbState[c] \notin {"none", "overflow"}}
  IN IF acc = {} THEN 0 ELSE CHOOSE c \in acc : \A d \in acc : d <= c
SharedChain(k) == LastAccepted
ChainOnResolved(k) == 0
\* the promise a new closure on lane key k is chained on: lane.promise of the
\* lane's record, or Promise.resolve() of a record created by this enqueue
PromiseToChainOn(k) == IF lanes[k] = 0 THEN 0 ELSE lanePromise[lanes[k]]

DeleteWhenIdle(depth, active) == active = 0
\* if (lane.depth === 0 && lane.active === 0) this.lanes.delete(laneKey)
LaneIsDone(depth, active) == depth = 0 /\ active = 0

StartKeepsTotal(n) == n
\* this.totalDepth = Math.max(0, this.totalDepth - 1) at the start of a run
TotalAfterStart(n) == DecFloor(n)

\* enqueue(rawLaneKey, fn), up to its first await
Enqueue(k) ==
  /\ nextCb <= MaxCb
  /\ LET c == nextCb IN
     /\ nextCb' = c + 1
     /\ cbKey' = [cbKey EXCEPT ![c] = k]
     /\ IF Overflow(totalDepth, maxDepth)
        THEN /\ cbState' = [cbState EXCEPT ![c] = "overflow"]
             /\ UNCHANGED <<lanes, laneDepth, laneActive, lanePromise,
                            totalDepth, cbLane, cbPred>>
        ELSE LET o == IF lanes[k] = 0 THEN c ELSE lanes[k]
                 d0 == IF lanes[k] = 0 THEN 0 ELSE laneDepth[o]
                 a0 == IF lanes[k] = 0 THEN 0 ELSE laneActive[o]
             IN /\ lanes' = [lanes EXCEPT ![k] = o]
                /\ laneDepth' = [laneDepth EXCEPT ![o] = d0 + 1]
                /\ laneActive' = [laneActive EXCEPT ![o] = a0]
                /\ totalDepth' = totalDepth + 1
                /\ cbPred' = [cbPred EXCEPT ![c] = PromiseToChainOn(k)]
                /\ lanePromise' = [lanePromise EXCEPT ![o] = c]
                /\ cbLane' = [cbLane EXCEPT ![c] = o]
                /\ cbState' = [cbState EXCEPT ![c] = "waiting"]
  /\ UNCHANGED maxDepth

\* the reaction of lane.promise.then(async () => {...}) once the promise the
\* closure was chained on has settled: the closure starts on fulfilment; on
\* rejection the closure is not called and the run rejects with that error
Then(c) ==
  /\ cbState[c] = "waiting"
  /\ ChainPromise(cbPred[c]) # "pending"
  /\ IF ChainPromise(cbPred[c]) = "fulfilled"
     THEN LET o == cbLane[c] IN
          /\ laneDepth' = [laneDepth EXCEPT ![o] = DecFloor(laneDepth[o])]
          /\ totalDepth' = TotalAfterStart(totalDepth)
          /\ laneActive' = [laneActive EXCEPT ![o] = laneActive[o] + 1]
          /\ cbState' = [cbState EXCEPT ![c] = "running"]
     ELSE /\ cbState' = [cbState EXCEPT ![c] = "skipped"]
          /\ UNCHANGED <<laneDepth, totalDepth, laneActive>>
  /\ UNCHANGED <<lanes, lanePromise, maxDepth, cbKey, cbLane, cbPred, nextCb>>

\* fn() settles (throws = TRUE: it threw or its promise rejected) and the
\* finally block of the closure runs
Finish(c, throws) ==
  /\ cbState[c] = "running"
  /\ LET o == cbLane[c]
         a == DecFloor(laneActive[o])
     IN /\ laneActive' = [laneActive EXCEPT ![o] = a]
        /\ lanes' = IF LaneIsDone(laneDepth[o], a)
                    THEN [lanes EXCEPT ![cbKey[c]] = 0] ELSE lanes
  /\ cbState' = [cbState EXCEPT ![c] = IF throws THEN "threw" ELSE "returned"]
  /\ UNCHANGED <<laneDepth, lanePromise, totalDepth, maxDepth, cbKey, cbLane,
                 cbPred, nextCb>>

NextLane ==
  \/ \E k \in LaneKeys : Enqueue(k) /\ UNCHANGED notLane
  \/ \E c \in CbIds : Then(c) /\ UNCHANGED notLane
  \/ \E c \in CbIds, throws \in BOOLEAN : Finish(c, throws) /\ UNCHANGED notLane


\* ------------------------------------------------ BackgroundTaskManager

\* this.maxConcurrentProcesses
maxConcurrentProcesses == MaxConc

NoTask ==
  [type |-> "none", status |-> "none", attempts |-> 0, maxRetries |-> 0,
   timeoutMs |-> 0]
NoTasks == [t \in Tasks |-> NoTask]
NoProc == [st |-> "none", att |-> 0]

\* createTaskBase: a command starts queued with attempts 0, a schedule starts
\* with the sentinel status running
CreateTaskBase(type, maxRetries, timeoutMs) ==
  [type |-> type,
   status |-> IF type = "schedule" THEN "running" ELSE "queued",
   attempts |-> 0, maxRetries |-> maxRetries, timeoutMs |-> timeoutMs]

\* the constructor, with this.tasks as init() will read them from statePath
NewManager(file) ==
  [phase |-> "new",            \* "new" | "init" | "ready" | "shutdown"
   tasks |-> file,             \* this.tasks
   nextId |-> 1 + Cardinality({t \in Tasks : file[t].type # "none"}),
   processes |-> {},           \* keys of this.processes
   procs |-> [t \in Tasks |-> NoProc],  \* the child of each task that has
                               \* not closed yet: "alive" | "killed" |
                               \* "errored" (spawn failed, error emitted)
   timers |-> {},              \* armed timeout timers <<task, attempt>>
   schedulers |-> {},          \* keys of this.schedulers
   pendingQueue |-> <<>>,      \* this.pendingQueue: [taskId, due]
   queueTimer |-> FALSE,       \* this.queueTimer is armed
   dispatching |-> FALSE,      \* this.dispatching
   progressed |-> FALSE,       \* local of the running dispatchPending
   dispCaller |-> 0,           \* task whose stop() awaits that dispatchPending
   persistChain |-> <<>>,      \* continuations awaiting their persist()
   ioWait |-> {},              \* continuations awaiting appendLog/ensureDir
   waiters |-> {},             \* keys of this.waiters: the runCommand calls
                               \* awaiting their waiterPromise
   foreground |-> {},          \* tasks of runCommand calls made with
                               \* background false
   \* history
   spawned |-> [t \in Tasks |-> file[t].attempts],  \* spawn() calls made
   stopCalled |-> [t \in Tasks |-> FALSE],
   ended |-> [t \in Tasks |-> FALSE],  \* task.command.end was emitted
   waiting |-> [t \in Tasks |-> FALSE], \* the retryAt computed when the last
                               \* run of the task failed is in the future
   calls |-> <<>>]             \* tasks returned to the runCommand calls made
                               \* with dedupeRunning, in call order

\* a suspended continuation: flag is fromQueue for a launch and forceQueue
\* for a runCommand
Token(op, t, flag) == [op |-> op, t |-> t, flag |-> flag]

\* const waiterPromise = background ? null : new Promise(... addWaiter ...)
AddWaiter(m, t) ==
  IF t \in m.foreground THEN [m EXCEPT !.waiters = @ \cup {t}] ELSE m

\* resolveWaiters(task): the runCommand calls waiting for the task return
ResolveWaiters(m, t) == [m EXCEPT !.waiters = @ \ {t}]

\* the continuation of a handler that awaits persist(), then calls
\* resolveWaiters(task) and dispatchPending(); a task without waiters is
\* not recorded, resolveWaiters returning at once for it
ResolveThenDispatch(m, t) ==
  Token("dispatch", IF t \in m.waiters THEN t ELSE 0, FALSE)

\* persist(): the caller resumes when its write, queued behind the earlier
\* ones on this.persistChain, has ended
Persist(m, tok) == [m EXCEPT !.persistChain = Append(@, tok)]

InQueue(m, t) == \E i \in 1..Len(m.pendingQueue) : m.pendingQueue[i].taskId = t

RECURSIVE RemoveAt(_, _)
RemoveAt(q, i) ==
  IF i = 1 THEN Tail(q) ELSE <<Head(q)>> \o RemoveAt(Tail(q), i - 1)

\* enqueueExistingTask: no second entry for a task already queued
EnqueueExistingTask(m, t, due) ==
  IF InQueue(m, t) THEN m
  ELSE [m EXCEPT !.tasks[t].status = "queued",
                 !.pendingQueue = Append(@, [taskId |-> t, due |-> due])]

\* launchTaskNow up to its await this.persist()
LaunchBegin(m, t, from) ==
  Persist([m EXCEPT !.tasks[t].status = "running",
                    !.tasks[t].attempts = @ + 1],
          Token("launch", t, from = "queue"))

\* launchTaskNow after the await: spawn, register the child, arm the timeout
LaunchSpawn(m, t, fail) ==
  LET a == m.tasks[t].attempts IN
  [m EXCEPT !.processes = @ \cup {t},
            !.procs[t] = [st |-> IF fail THEN "spawnfail" ELSE "alive", att |-> a],
            !.timers = IF m.tasks[t].timeoutMs > 0 THEN @ \cup {<<t, a>>} ELSE @,
            !.spawned[t] = @ + 1]

FirstItem(q) == IF Len(q) = 0 THEN 0 ELSE 1
\* index of the first queue item whose retryAt has passed, 0 when none
FirstDue(q) ==
  LET due == {i \in 1..Len(q) : q[i].due}
  IN IF due = {} THEN 0 ELSE CHOOSE i \in due : \A j \in due : i <= j

\* the body of the while loop of dispatchPending up to the next launch:
\* items of cancelled or missing tasks are dropped
RECURSIVE DispatchScan(_, _)
DispatchScan(m, q) ==
  LET i == FirstDue(q) IN
  IF i = 0 THEN [q |-> q, launch |-> 0]
  ELSE IF m.tasks[q[i].taskId].type = "none"
          \/ m.tasks[q[i].taskId].status = "cancelled"
       THEN DispatchScan(m, RemoveAt(q, i))
       ELSE [q |-> RemoveAt(q, i), launch |-> q[i].taskId]

\* while (this.processes.size < this.maxConcurrentProcesses)
FreeSlot(m) == Cardinality(m.processes) < maxConcurrentProcesses

\* the call of dispatchPending made by stop() of task c, by init() (c = -1)
\* or by another caller (c = 0) returns, and with it stop() or init()
DispatchReturns(m, c) ==
  IF c = -1 THEN [m EXCEPT !.phase = "ready"] ELSE m

\* the finally block of dispatchPending
DispatchEnd(m) ==
  DispatchReturns([m EXCEPT !.dispatching = FALSE, !.dispCaller = 0,
                            !.progressed = FALSE],
                  m.dispCaller)

DispatchTailNoTimer(m) ==
  IF m.progressed THEN Persist(m, Token("dispEnd", 0, FALSE)) ELSE DispatchEnd(m)
\* dispatchPending after its loop: one wake-up for what is left, one persist
\* when something was launched
DispatchTail(m) ==
  LET m1 == IF Len(m.pendingQueue) > 0 THEN [m EXCEPT !.queueTimer = TRUE] ELSE m
  IN IF m1.progressed THEN Persist(m1, Token("dispEnd", 0, FALSE))
     ELSE DispatchEnd(m1)

\* the while loop of dispatchPending, from its test to the next await
DispatchLoop(m) ==
  IF ~FreeSlot(m) THEN DispatchTail(m)
  ELSE LET r == DispatchScan(m, m.pendingQueue)
           m1 == [m EXCEPT !.pendingQueue = r.q]
       IN IF r.launch = 0 THEN DispatchTail(m1)
          ELSE LaunchBegin(m1, r.launch, "queue")

\* dispatchPending() called by c (see DispatchReturns)
DispatchPending(m, c) ==
  IF m.dispatching THEN DispatchReturns(m, c)
  ELSE DispatchLoop([m EXCEPT !.dispatching = TRUE, !.queueTimer = FALSE,
                              !.progressed = FALSE, !.dispCaller = c])

\* the 'error' handler of a child up to its await this.appendLog(...)
ErrorHandler(m, t) ==
  [m EXCEPT !.processes = @ \ {t},
            !.tasks[t].status = "failed",
            !.procs[t].st = "errored",
            !.ioWait = @ \cup {Token("errLog", t, FALSE)}]

\* const canRetry = Number(task.attempts || 0) <= Number(task.maxRetries || 0)
CanRetry(attempts, maxRetries) == attempts <= maxRetries

\* the 'close' handler of a child that exited with code (0, or 1 for any
\* other code including none) up to its first await
CloseHandler(m, t, code) ==
  LET m1 == [m EXCEPT !.processes = @ \ {t}, !.procs[t] = NoProc]
      task == m.tasks[t]
      done == ResolveThenDispatch(m, t)
      end == Token("end", t, FALSE)
  IN IF task.status = "cancelled" THEN Persist(m1, done)
     ELSE IF code = 0
     THEN Persist([m1 EXCEPT !.tasks[t].status = "completed"], end)
     ELSE IF CanRetry(task.attempts, task.maxRetries) /\ task.status # "stopped"
     THEN LET m2 == EnqueueExistingTask(
                      [m1 EXCEPT !.tasks[t].status = "queued"], t, FALSE)
          IN [m2 EXCEPT !.waiting[t] = TRUE,
                        !.ioWait = @ \cup {Token("retryLog", t, FALSE)}]
     ELSE Persist([m1 EXCEPT !.tasks[t].status =
                       IF task.status = "stopped" THEN "stopped" ELSE "failed"],
                  end)

InitStatusUntouched(task) == task.status
\* the status init() gives a task read from the state file
InitStatus(task) ==
  IF task.type = "schedule" /\ task.status # "cancelled" THEN "running"
  ELSE IF task.status \in {"running", "queued"} THEN "queued"
  ELSE task.status

\* the for loop of init() over the tasks read from the state file
RECURSIVE InitTasks(_, _)
InitTasks(m, t) ==
  IF t > MaxTasks THEN m
  ELSE LET task == m.tasks[t]
           st == InitStatus(task)
           m1 == [m EXCEPT !.tasks[t].status = st]
           m2 == IF task.type = "command" /\ st = "queued"
                 THEN EnqueueExistingTask(m1, t, TRUE) ELSE m1
       IN InitTasks(m2, t + 1)

\* init() up to its await this.persist()
ManagerInit ==
  /\ mgr.phase = "new"
  /\ mgr' = Persist([InitTasks(mgr, 1) EXCEPT !.phase = "init"],
                    Token("init", 0, FALSE))
  /\ UNCHANGED notMgr

\* const shouldQueue = forceQueue || (queueIfBusy && processes.size >=
\* maxConcurrentProcesses) || pendingQueue.length > 0, with queueIfBusy true
\* as every caller passes it
ShouldQueue(m, force) ==
  force \/ Cardinality(m.processes) >= maxConcurrentProcesses
        \/ Len(m.pendingQueue) > 0

\* runCommand up to its await ensureDir(...): the task is created and pushed
RunCommandBegin(m, force, maxRetries, timeoutMs) ==
  [m EXCEPT !.tasks[m.nextId] = CreateTaskBase("command", maxRetries, timeoutMs),
            !.nextId = @ + 1,
            !.ioWait = @ \cup {Token("rcEnsure", m.nextId, force)}]

\* runCommand after ensureDir: queue the task or launch it at once
RunCommandDecide(m, t, force) ==
  IF ShouldQueue(m, force)
  THEN Persist(EnqueueExistingTask(AddWaiter(m, t), t, TRUE),
               Token("dispatch", 0, FALSE))
  ELSE LaunchBegin(AddWaiter(m, t), t, "direct")

\* runCommand with background true / enqueueCommand (forceQueue) called by
\* a tool
RunCommand(force, maxRetries, timeoutMs) ==
  /\ mgr.phase = "ready"
  /\ mgr.nextId <= MaxTasks
  /\ mgr' = RunCommandBegin(mgr, force, maxRetries, timeoutMs)
  /\ UNCHANGED notMgr

\* runCommand with background false: the call returns its waiterPromise
RunCommandWait(force, maxRetries, timeoutMs) ==
  /\ mgr.phase = "ready"
  /\ mgr.nextId <= MaxTasks
  /\ mgr' = [RunCommandBegin(mgr, force, maxRetries, timeoutMs)
               EXCEPT !.foreground = @ \cup {mgr.nextId}]
  /\ UNCHANGED notMgr

\* findRunningByCommand for the one command and cwd every task of the model
\* is given: the first task of this.tasks with status running, 0 for null
FindRunningByCommand(m) ==
  LET hit == {t \in Tasks : m.tasks[t].status = "running"}
  IN IF hit = {} THEN 0 ELSE CHOOSE t \in hit : \A u \in hit : t <= u

\* runCommand called with dedupeRunning: the running task with the same
\* command is returned, or a task is created as by any runCommand
RunCommandDedupe(force, maxRetries, timeoutMs) ==
  /\ mgr.phase = "ready"
  /\ Len(mgr.calls) < MaxDedupeCalls
  /\ LET existing == FindRunningByCommand(mgr) IN
       IF existing # 0
       THEN mgr' = [mgr EXCEPT !.calls = Append(@, existing)]
       ELSE /\ mgr.nextId <= MaxTasks
            /\ mgr' = [RunCommandBegin(mgr, force, maxRetries, timeoutMs)
                         EXCEPT !.calls = Append(@, mgr.nextId)]
  /\ UNCHANGED notMgr

\* scheduleCommand: the schedule task, its interval timer, and the persist()
\* after which the call returns
ScheduleCommand(maxRetries) ==
  /\ mgr.phase = "ready"
  /\ mgr.nextId <= MaxTasks
  /\ mgr' = Persist([mgr EXCEPT !.tasks[mgr.nextId] =
                                  CreateTaskBase("schedule", maxRetries, 0),
                                !.nextId = @ + 1,
                                !.schedulers = @ \cup {mgr.nextId}],
                    Token("return", 0, FALSE))
  /\ UNCHANGED notMgr

\* the setInterval callback of startScheduler: runCommand for a child command
ScheduleTick(s) ==
  /\ s \in mgr.schedulers
  /\ mgr.nextId <= MaxTasks
  /\ mgr' = RunCommandBegin(mgr, FALSE, mgr.tasks[s].maxRetries, 0)
  /\ UNCHANGED notMgr

\* proc.kill("SIGTERM") on the child of task t that was spawned as attempt a
Kill(m, t, a) ==
  IF m.procs[t].st = "alive" /\ m.procs[t].att = a
  THEN [m EXCEPT !.procs[t].st = "killed"] ELSE m

RECURSIVE SeqFilterOut(_, _)
SeqFilterOut(q, t) ==
  IF q = <<>> THEN <<>>
  ELSE IF Head(q).taskId = t THEN SeqFilterOut(Tail(q), t)
  ELSE <<Head(q)>> \o SeqFilterOut(Tail(q), t)

\* stop(taskId) up to its await this.appendLog(...)
StopBegin(m, t) ==
  LET m1 == IF t \in m.processes THEN Kill(m, t, m.procs[t].att) ELSE m
  IN [m1 EXCEPT !.schedulers = @ \ {t},
                !.pendingQueue = SeqFilterOut(@, t),
                !.processes = @ \ {t},
                !.tasks[t].status = "cancelled",
                !.stopCalled[t] = TRUE,
                !.ioWait = @ \cup {Token("stopLog", t, FALSE)}]

Stop(t) ==
  /\ mgr.phase = "ready"
  /\ mgr.tasks[t].type # "none"
  /\ ~mgr.stopCalled[t]
  /\ mgr' = StopBegin(mgr, t)
  /\ UNCHANGED notMgr

RECURSIVE StopAll(_, _, _)
\* the loops of shutdown: every task in ids with status running becomes
\* stopped; the children of those in kill are sent SIGTERM
StopAll(m, ids, kill) ==
  IF ids = {} THEN m
  ELSE LET t == CHOOSE x \in ids : TRUE
           m1 == IF kill THEN Kill(m, t, m.procs[t].att) ELSE m
           m2 == IF m1.tasks[t].status = "running"
                 THEN LET m3 == [m1 EXCEPT !.tasks[t].status = "stopped"]
                      IN IF kill THEN ResolveWaiters(m3, t) ELSE m3
                 ELSE m1
       IN StopAll(m2, ids \ {t}, kill)

\* shutdown({stopSchedulesOnly}) up to its await this.persist()
ShutdownBegin(m, stopSchedulesOnly) ==
  LET m1 == [StopAll([m EXCEPT !.queueTimer = FALSE], m.schedulers, FALSE)
               EXCEPT !.schedulers = {}]
      m2 == IF stopSchedulesOnly THEN m1
            ELSE [StopAll(m1, m1.processes, TRUE)
                    EXCEPT !.processes = {}, !.pendingQueue = <<>>]
  IN Persist([m2 EXCEPT !.phase = "shutdown"], Token("return", 0, FALSE))

Shutdown(stopSchedulesOnly) ==
  /\ mgr.phase = "ready"
  /\ mgr' = ShutdownBegin(mgr, stopSchedulesOnly)
  /\ UNCHANGED notMgr

\* the setTimeout callback armed by the launch of attempt a of task t
TimeoutBody(m, t, a) ==
  IF t \notin m.processes THEN m
  ELSE [Kill(m, t, a) EXCEPT !.tasks[t].status = "stopped"]

TimeoutFire(t, a) ==
  /\ <<t, a>> \in mgr.timers
  /\ mgr' = TimeoutBody([mgr EXCEPT !.timers = @ \ {<<t, a>>}], t, a)
  /\ UNCHANGED notMgr

\* the child of task t closes: code 0, or 1 for any other outcome (a failed
\* spawn closes with a negative code after its 'error')
ProcClose(t, code) ==
  /\ mgr.procs[t].st \in {"alive", "killed", "errored"}
  /\ mgr.procs[t].st = "errored" => code = 1
  /\ mgr' = CloseHandler(mgr, t, code)
  /\ UNCHANGED notMgr

\* the child of task t writes a chunk holding a non-empty line: onData up to
\* its await this.appendLog(...); it emits task.command.output when resumed
ProcData(t) ==
  /\ mgr.procs[t].st \in {"alive", "killed"}
  /\ Token("outLog", t, FALSE) \notin mgr.ioWait
  /\ mgr' = [mgr EXCEPT !.ioWait = @ \cup {Token("outLog", t, FALSE)}]
  /\ UNCHANGED notMgr

\* the queue timer of scheduleNextQueueTick fires
QueueTimerFire ==
  /\ mgr.queueTimer
  /\ Len(mgr.pendingQueue) = 0 \/ FirstDue(mgr.pendingQueue) # 0
  /\ mgr' = DispatchPending([mgr EXCEPT !.queueTimer = FALSE], 0)
  /\ UNCHANGED notMgr

\* time passes: the retryAt of a queued retry is reached
RetryDue(i) ==
  /\ i \in 1..Len(mgr.pendingQueue)
  /\ ~mgr.pendingQueue[i].due
  /\ mgr' = [mgr EXCEPT !.pendingQueue[i].due = TRUE,
                        !.waiting[mgr.pendingQueue[i].taskId] = FALSE]
  /\ UNCHANGED notMgr

\* startScheduler for every schedule that is not cancelled (end of init)
StartSchedulers(m) ==
  [m EXCEPT !.schedulers =
     {t \in Tasks : m.tasks[t].type = "schedule" /\ m.tasks[t].status # "cancelled"}]

\* the continuation tok resumes after its persist()
Resume(m, tok, fail) ==
  CASE tok.op = "launch" ->
         LET m1 == LaunchSpawn(m, tok.t, fail)
             m2 == IF tok.flag THEN DispatchLoop([m1 EXCEPT !.progressed = TRUE])
                   ELSE m1
         IN IF fail THEN ErrorHandler(m2, tok.t) ELSE m2
    [] tok.op = "dispEnd" -> DispatchEnd(m)
    [] tok.op = "init" -> DispatchPending(StartSchedulers(m), -1)
    [] tok.op = "stop" -> DispatchPending(ResolveWaiters(m, tok.t), tok.t)
    [] tok.op = "return" -> m
    [] tok.op = "dispatch" -> DispatchPending(ResolveWaiters(m, tok.t), 0)
    [] tok.op = "end" ->
         DispatchPending(ResolveWaiters([m EXCEPT !.ended[tok.t] = TRUE], tok.t), 0)

\* the oldest write on this.persistChain ends and its caller resumes; a
\* resumed launch spawns its child, and the spawn may fail
PersistDone(fail) ==
  /\ Len(mgr.persistChain) > 0
  /\ fail => Head(mgr.persistChain).op = "launch"
  /\ mgr' = Resume([mgr EXCEPT !.persistChain = Tail(@)],
                   Head(mgr.persistChain), fail)
  /\ UNCHANGED notMgr

\* an appendLog or ensureDir ends and its caller runs on to its next await
Continue(m, tok) ==
  CASE tok.op = "rcEnsure" -> RunCommandDecide(m, tok.t, tok.flag)
    [] tok.op = "stopLog" -> Persist(m, Token("stop", tok.t, FALSE))
    [] tok.op = "retryLog" -> Persist(m, Token("dispatch", 0, FALSE))
    [] tok.op = "errLog" -> Persist(m, ResolveThenDispatch(m, tok.t))
    [] tok.op = "outLog" -> m

IoDone(tok) ==
  /\ tok \in mgr.ioWait
  /\ mgr' = Continue([mgr EXCEPT !.ioWait = @ \ {tok}], tok)
  /\ UNCHANGED notMgr

IoTokens ==
  {Token(op, t, f) : op \in {"rcEnsure", "stopLog", "retryLog", "errLog",
                              "outLog"},
                     t \in Tasks, f \in BOOLEAN}

\* ---------------------------------------------------------- AutonomousLoop

\* the constructor; autoConfig.enabled and autoConfig.maxConsecutiveFailures
\* come from the configuration
NewLoop(enabled, max) ==
  [enabled |-> enabled,          \* this.autoConfig.enabled
   max |-> max,                  \* getMaxConsecutiveFailures()
   timer |-> FALSE,              \* this.timer is set
   running |-> FALSE,            \* this.running
   pc |-> "idle",                \* the tick in flight: "idle" | "prep" (the
                                 \* awaits on the objective queue) | "prompt"
                                 \* (await this.runtime.handleIncoming)
   consecutiveFailures |-> 0,    \* this.consecutiveFailures
   disabledReason |-> FALSE,     \* this.disabledReason is set
   skippedTicks |-> 0,           \* this.skippedTicks
   reconfigs |-> 0,              \* applyConfig calls made
   \* history
   streak |-> 0,                 \* failed ticks in a row since applyConfig
   tripped |-> FALSE,            \* streak has reached max since applyConfig
   reenabled |-> FALSE,          \* the last applyConfig cleared a
                                 \* disabledReason that was set
   lastTick |-> "none"]          \* what the tick() call of the last step
                                 \* did: "start", or the reason of the
                                 \* autonomous.tick.skip event it emitted;
                                 \* "none" after any other step

InitLoop == loop = NewLoop(TRUE, 1)

\* start(): the interval timer; its immediate tick is one more LoopTick
LoopStart(l) == IF ~l.enabled \/ l.timer THEN l ELSE [l EXCEPT !.timer = TRUE]

\* stop()
LoopStop(l) == [l EXCEPT !.timer = FALSE]

Start ==
  /\ ~loop.timer
  /\ loop.enabled
  /\ loop' = LoopStart([loop EXCEPT !.lastTick = "none"])
  /\ UNCHANGED notLoop

\* the pressure checks of tick(): shouldSkipForQueuePressure() and
\* getTaskPressure().skip
Pressures == {"none", "queue_pressure", "task_pressure"}

SkipReasonUnlessRunning(l, busy, pressure) ==
  IF l.disabledReason THEN "disabled"
  ELSE IF busy THEN "runtime_busy"
  ELSE pressure
\* the checks of tick() before it sets this.running, in their order: the
\* reason of the skip, "none" when the tick goes on; busy is
\* this.runtime.isBusy()
SkipReason(l, busy, pressure) ==
  IF l.disabledReason THEN "disabled"
  ELSE IF l.running \/ busy THEN "runtime_busy"
  ELSE pressure

\* tick() returns at one of its checks
TickSkip(busy, pressure) ==
  /\ loop.timer
  /\ loop.enabled
  /\ SkipReason(loop, busy, pressure) # "none"
  /\ loop.skippedTicks < MaxSkips
  /\ loop' = [loop EXCEPT !.skippedTicks = @ + 1,
                          !.lastTick = SkipReason(loop, busy, pressure)]
  /\ UNCHANGED notLoop

\* tick() up to its first await: it passes the checks (the runtime is not
\* busy, no queue or task pressure) and sets this.running
Tick ==
  /\ loop.timer
  /\ loop.enabled
  /\ SkipReason(loop, FALSE, "none") = "none"
  /\ loop' = [loop EXCEPT !.running = TRUE, !.pc = "prep", !.lastTick = "start"]
  /\ UNCHANGED notLoop

\* the tick calls this.runtime.handleIncoming(...)
TickPrompt ==
  /\ loop.pc = "prep"
  /\ loop' = [loop EXCEPT !.pc = "prompt", !.lastTick = "none"]
  /\ UNCHANGED notLoop

\* the reply is not a runtime error
TickSucceeds ==
  /\ loop.pc = "prompt"
  /\ loop' = [loop EXCEPT !.pc = "idle", !.running = FALSE,
                          !.consecutiveFailures = 0, !.streak = 0,
                          !.lastTick = "none"]
  /\ UNCHANGED notLoop

ExceededMaxFailures(failures, max) == failures > max
\* if (this.consecutiveFailures >= maxFailures)
ReachedMaxFailures(failures, max) == failures >= max

\* the catch block: markPicked rejected (pc "prep") or the reply was a
\* runtime error (pc "prompt")
TickFails ==
  /\ loop.pc \in {"prep", "prompt"}
  /\ LET n == loop.consecutiveFailures + 1 IN
     loop' = [loop EXCEPT !.pc = "idle", !.running = FALSE,
                          !.consecutiveFailures = n,
                          !.disabledReason = @ \/ ReachedMaxFailures(n, loop.max),
                          !.streak = @ + 1,
                          !.tripped = @ \/ (loop.streak + 1 >= loop.max),
                          !.lastTick = "none"]
  /\ UNCHANGED notLoop

\* applyConfig({enabled, maxConsecutiveFailures}); the interval is left as
\* it is, so the timer is not restarted
ApplyConfig(enabled, max) ==
  /\ loop.reconfigs < MaxReconfigs
  /\ LET l0 == [loop EXCEPT !.enabled = enabled, !.max = max,
                            !.reconfigs = @ + 1,
                            !.streak = 0, !.tripped = FALSE,
                            !.reenabled = FALSE, !.lastTick = "none"]
         l1 == [l0 EXCEPT !.disabledReason = FALSE,
                          !.reenabled = loop.disabledReason]
         l2 == IF ~loop.enabled
               THEN [l1 EXCEPT !.consecutiveFailures = 0] ELSE l1
     IN loop' = IF ~enabled THEN LoopStop(l0) ELSE LoopStart(l2)
  /\ UNCHANGED notLoop

NextLoop ==
  \/ Start
  \/ Tick
  \/ \E busy \in BOOLEAN, pressure \in Pressures : TickSkip(busy, pressure)
  \/ TickPrompt
  \/ TickSucceeds
  \/ TickFails
  \/ \E enabled \in BOOLEAN, max \in 1..MaxFailuresCap : ApplyConfig(enabled, max)

\* ----------------------------------------------------------- NxClawRuntime
\* A turn of the event loop is either a caller making handleIncoming calls
\* or the completion of one awaited IO operation; the microtasks it leaves
\* (rt.micro) then run in FIFO order until none is left.  An await of a
\* promise that is already resolved is one microtask.

NoEnforce == [phase |-> "none", list |-> <<>>, over |-> 0, ret |-> "none"]

\* the constructor, and the sessions an idle runtime holds after earlier
\* requests (at most maxSessionLanes of them)
NewRuntime(sessions) ==
  [sessionByLane |-> sessions,          \* keys of this.sessionByLane
   meta |-> SelectSeq(KeyOrder, LAMBDA k : k \in sessions),
                                        \* keys of this.sessionMetaByLane in
                                        \* insertion order
   lru |-> SelectSeq(KeyOrder, LAMBDA k : k \in sessions),
                                        \* the same keys by lastUsedAt
   expired |-> {},                      \* keys whose lastUsedAt is more than
                                        \* maxSessionIdleMs ago
   activeRuns |-> [k \in SessionKeys |-> 0],  \* this.activeRuns (0: no entry)
   pc |-> [c \in CbIds |-> "none"],     \* where each handleIncoming call is
   reply |-> [c \in CbIds |-> "none"],  \* what it resolved with
   enf |-> [c \in CbIds |-> NoEnforce], \* its enforceSessionLimits call
   micro |-> <<>>,                      \* the microtask queue
   draining |-> FALSE,                  \* a microtask of this turn has run
   \* history
   started |-> <<>>,                    \* calls in the order their lane
                                        \* callback began
   archivedActive |-> {}]               \* keys archived by
                                        \* enforceSessionLimits while in
                                        \* this.activeRuns

InitRt == rt = NewRuntime({})

RemoveKey(seq, k) == SelectSeq(seq, LAMBDA x : x # k)

\* touchSessionMeta(laneKey)
TouchSessionMeta(r, k) ==
  [r EXCEPT !.meta = IF \E i \in 1..Len(@) : @[i] = k THEN @ ELSE Append(@, k),
            !.lru = Append(RemoveKey(@, k), k),
            !.expired = @ \ {k}]

\* archiveSessionLane(laneKey), called by enforceSessionLimits
ArchiveSessionLane(r, k) ==
  [r EXCEPT !.sessionByLane = @ \ {k},
            !.meta = RemoveKey(@, k),
            !.lru = RemoveKey(@, k),
            !.expired = @ \ {k},
            !.activeRuns[k] = 0,
            !.archivedActive = IF r.activeRuns[k] # 0 THEN @ \cup {k} ELSE @]

Queue(r, op, c) == [r EXCEPT !.micro = Append(@, <<op, c>>)]

\* enforceSessionLimits() returns: the caller's await resumes
EnforceReturn(r, c) ==
  Queue([r EXCEPT !.enf[c] = NoEnforce], r.enf[c].ret, c)

\* the loop over `ordered`
EnforceLru(r, c) ==
  LET e == r.enf[c] IN
  IF e.list = <<>> \/ e.over <= 0 THEN EnforceReturn(r, c)
  ELSE Queue([ArchiveSessionLane(r, Head(e.list))
                EXCEPT !.enf[c].list = Tail(e.list), !.enf[c].over = e.over - 1],
             "enf", c)

\* if (this.activeRuns.has(meta.lane)) continue, and the filter of `ordered`
ScanSkipsActive(r, k) == r.activeRuns[k] = 0

\* the size test, `ordered` and `overshoot`
EnforceLruScan(r, c) ==
  IF Cardinality(r.sessionByLane) <= MaxSessionLanes THEN EnforceReturn(r, c)
  ELSE EnforceLru([r EXCEPT !.enf[c].phase = "lru",
                            !.enf[c].list = SelectSeq(r.lru, LAMBDA k : ScanSkipsActive(r, k)),
                            !.enf[c].over = Cardinality(r.sessionByLane) - MaxSessionLanes],
                  c)

\* the loop over `stale`
EnforceIdle(r, c) ==
  LET e == r.enf[c] IN
  IF e.list = <<>> THEN EnforceLruScan(r, c)
  ELSE Queue([ArchiveSessionLane(r, Head(e.list)) EXCEPT !.enf[c].list = Tail(e.list)],
             "enf", c)

\* enforceSessionLimits() up to its first await; ret names the await of the
\* caller
EnforceSessionLimits(r, c, ret) ==
  EnforceIdle([r EXCEPT !.enf[c] =
                 [phase |-> "idle",
                  list |-> SelectSeq(r.meta, LAMBDA k : ScanSkipsActive(r, k) /\ k \in r.expired),
                  over |-> 0,
                  ret |-> ret]],
              c)

\* the lane callback up to its first await: getOrCreateSession(sessionKey)
StartCallback(r, c) ==
  LET k == cbKey[c]
      r1 == [r EXCEPT !.started = Append(@, c)]
  IN IF k \in r.sessionByLane
     THEN Queue([TouchSessionMeta(r1, k) EXCEPT !.pc[c] = "session"], "session", c)
     ELSE EnforceSessionLimits([r1 EXCEPT !.pc[c] = "enforce"], c, "create")

\* one microtask other than the start of a lane callback
ResumeCallback(r, op, c) ==
  LET k == cbKey[c] IN
  CASE op = "session" ->
         \* the callback has its session: this.activeRuns.set, then
         \* await this.memoryStore.addConversation (the user turn)
         [TouchSessionMeta(r, k) EXCEPT !.activeRuns[k] = c, !.pc[c] = "append"]
    [] op = "enf" ->
         IF r.enf[c].phase = "idle" THEN EnforceIdle(r, c) ELSE EnforceLru(r, c)
    [] op = "create" ->
         \* getOrCreateSession after its enforceSessionLimits: await ensureDir
         [r EXCEPT !.pc[c] = "ensureDir"]
    [] op = "compact" ->
         \* maybeCompactMemory returned: await this.enforceSessionLimits()
         EnforceSessionLimits([r EXCEPT !.pc[c] = "enforce"], c, "tail")
    [] op = "tail" ->
         \* touchSessionMeta, then await this.persistStateSnapshot()
         [TouchSessionMeta(r, k) EXCEPT !.pc[c] = "snapshot"]

EndTurn(r) == [r EXCEPT !.draining = (r.micro # <<>>)]

\* the event loop runs the oldest microtask
RunMicrotask ==
  /\ rt.micro # <<>>
  /\ LET op == Head(rt.micro)[1]
         c == Head(rt.micro)[2]
         r == [rt EXCEPT !.micro = Tail(@)]
     IN IF op = "then"
        THEN /\ Then(c)
             /\ rt' = EndTurn(StartCallback(r, c))
        ELSE /\ rt' = EndTurn(ResumeCallback(r, op, c))
             /\ UNCHANGED laneVars
  /\ UNCHANGED notRt

\* if (this.getQueueDepth() >= this.config.runtime.maxQueueDepth)
PreCheck(depth, max) == depth >= max

\* handleIncoming(incoming, text) of an authenticated runtime with a
\* non-empty text, up to its first await
HandleIncoming(k) ==
  /\ ~rt.draining
  /\ nextCb <= MaxRequests
  /\ LET c == nextCb IN
     IF PreCheck(totalDepth, maxDepth)
     THEN \* return `Queue overflow: depth ...`
          /\ nextCb' = c + 1
          /\ cbKey' = [cbKey EXCEPT ![c] = k]
          /\ rt' = [rt EXCEPT !.pc[c] = "done", !.reply[c] = "QueueOverflow"]
          /\ UNCHANGED <<lanes, laneDepth, laneActive, lanePromise, totalDepth,
                         maxDepth, cbState, cbLane, cbPred>>
     ELSE /\ Enqueue(k)
          /\ rt' = IF cbState'[c] = "overflow"
                   THEN \* enqueue threw: the outer catch
                        [rt EXCEPT !.pc[c] = "done", !.reply[c] = "RuntimeError"]
                   ELSE IF ChainPromise(cbPred'[c]) # "pending"
                   THEN Queue([rt EXCEPT !.pc[c] = "waiting"], "then", c)
                   ELSE [rt EXCEPT !.pc[c] = "waiting"]
  /\ UNCHANGED notRt

\* the finally block of the lane callback
Finally(r, c) ==
  LET k == cbKey[c] IN
  TouchSessionMeta([r EXCEPT !.activeRuns[k] = IF @ = c THEN 0 ELSE @], k)

\* the lane callback has settled: the reaction of the next closure of the
\* lane is queued, and handleIncoming resolves with the reply
Settled(r, c, reply) ==
  LET next == {d \in CbIds : cbState[d] = "waiting" /\ cbPred[d] = c}
      r1 == [r EXCEPT !.pc[c] = "done", !.reply[c] = reply]
  IN IF next = {} THEN r1 ELSE Queue(r1, "then", CHOOSE d \in next : TRUE)

\* an awaited IO operation of call c completes (fail: it rejects)
IoCompletes(c, fail) ==
  /\ rt.micro = <<>>
  /\ LET k == cbKey[c]
         p == rt.pc[c]
         r == [rt EXCEPT !.draining = TRUE]
     IN
     CASE p \in {"ensureDir", "createSession"} /\ fail ->
            \* getOrCreateSession rejects, and the callback with it (there
            \* is no active run yet): the outer catch
            /\ Finish(c, TRUE)
            /\ rt' = EndTurn(Settled(r, c, "RuntimeError"))
       [] p = "ensureDir" /\ ~fail ->
            /\ rt' = EndTurn([r EXCEPT !.pc[c] = "createSession"])
            /\ UNCHANGED laneVars
       [] p = "createSession" /\ ~fail ->
            /\ rt' = EndTurn(Queue([TouchSessionMeta(
                                      [r EXCEPT !.sessionByLane = @ \cup {k}], k)
                                      EXCEPT !.pc[c] = "session"], "session", c))
            /\ UNCHANGED laneVars
       [] p \in {"append", "prompt", "store", "snapshot"} /\ fail ->
            \* the catch block: await this.persistStateSnapshot()
            /\ rt' = EndTurn([r EXCEPT !.pc[c] = "errSnapshot"])
            /\ UNCHANGED laneVars
       [] p = "append" /\ ~fail ->
            \* memoryStore.search, composeContextPrompt, runPromptWithRetry
            /\ rt' = EndTurn([r EXCEPT !.pc[c] = "prompt"])
            /\ UNCHANGED laneVars
       [] p = "prompt" /\ ~fail ->
            \* memoryStore.addConversation (the assistant turn)
            /\ rt' = EndTurn([r EXCEPT !.pc[c] = "store"])
            /\ UNCHANGED laneVars
       [] p = "store" /\ ~fail ->
            \* await this.maybeCompactMemory() with nothing to compact
            /\ rt' = EndTurn(Queue([r EXCEPT !.pc[c] = "compact"], "compact", c))
            /\ UNCHANGED laneVars
       [] p = "snapshot" /\ ~fail ->
            /\ Finish(c, FALSE)
            /\ rt' = EndTurn(Settled(Finally(r, c), c, "reply"))
       [] p = "errSnapshot" ->
            \* return `Runtime error: ...`, or the snapshot rejects and the
            \* outer catch returns it
            /\ Finish(c, fail)
            /\ rt' = EndTurn(Settled(Finally(r, c), c, "RuntimeError"))
       [] OTHER -> FALSE
  /\ UNCHANGED notRt

\* time passes: every lastUsedAt recorded so far is older than the idle limit
IdleTimePasses ==
  /\ rt.micro = <<>>
  /\ rt.expired # {k \in SessionKeys : \E i \in 1..Len(rt.meta) : rt.meta[i] = k}
  /\ rt' = [rt EXCEPT !.expired = {k \in SessionKeys : \E i \in 1..Len(rt.meta) : rt.meta[i] = k}]
  /\ UNCHANGED <<laneVars, notRt>>

NextRuntime ==
  \/ \E k \in SessionKeys : HandleIncoming(k)
  \/ RunMicrotask
  \/ \E c \in CbIds, fail \in BOOLEAN : IoCompletes(c, fail)
  \/ IdleTimePasses

\* ------------------------------------------------------------- MemoryStore

\* the characters session keys are made of: letters, and one character that
\* is not allowed in a file name
KeyChars == {"a", "b", ":"}
SafeChars == {"a", "b", "_", ".", "-"}
\* the session keys: the non-empty strings of at most MaxKeyLen characters
StoreKeys == UNION {[1..n -> KeyChars] : n \in 1..MaxKeyLen}
Tokens == {"t1", "t2"}

RECURSIVE DropUnsafe(_)
DropUnsafe(s) ==
  IF s = <<>> \/ Head(s) \in SafeChars THEN s ELSE DropUnsafe(Tail(s))

\* .replace(/[^a-zA-Z0-9_.-]+/g, "_")
RECURSIVE ReplaceUnsafe(_)
ReplaceUnsafe(s) ==
  IF s = <<>> THEN <<>>
  ELSE IF Head(s) \in SafeChars THEN <<Head(s)>> \o ReplaceUnsafe(Tail(s))
  ELSE <<"_">> \o ReplaceUnsafe(DropUnsafe(Tail(s)))

RECURSIVE StripLeading(_)
StripLeading(s) ==
  IF s # <<>> /\ Head(s) = "_" THEN StripLeading(Tail(s)) ELSE s

RECURSIVE StripTrailing(_)
StripTrailing(s) ==
  IF s # <<>> /\ s[Len(s)] = "_" THEN StripTrailing(SubSeq(s, 1, Len(s) - 1)) ELSE s

\* .slice(0, n)
Slice(s, n) == SubSeq(s, 1, IF Len(s) < n THEN Len(s) ELSE n)

\* safeSessionFileName(sessionKey), for a key without surrounding blanks
SafeSessionFileName(key) ==
  Slice(StripTrailing(StripLeading(ReplaceUnsafe(key))), 120)

\* path.join(this.sessionMemoryDir, `${safe}.md`): the directory, the
\* separator, the file name and its extension
SessionFilePath(key) == <<"sessions", "/">> \o SafeSessionFileName(key) \o <<".md">>

\* String.prototype.endsWith
EndsWith(s, suffix) ==
  /\ Len(suffix) <= Len(s)
  /\ SubSeq(s, Len(s) - Len(suffix) + 1, Len(s)) = suffix

NoSearch == [key |-> <<>>, tok |-> "t1", mode |-> "none", items |-> {}]

\* the constructor and init() over empty files
NewMemory ==
  [rawEntries |-> <<>>,     \* this.rawEntries: [id, key, tok, actor, source,
                            \* at], tok being the content and at createdAt
   now |-> 0,               \* the clock, in units of 3 hours
   turns |-> <<>>,          \* history: the addConversation calls made and
                            \* whether each stored its entry
   files |-> {},            \* the sections of the session and daily files:
                            \* [sourceType, path, session, tok, owner], where
                            \* session is the `| session=` tag of a daily
                            \* section and owner the key it was stored under
   knowledgeChunks |-> {},  \* this.knowledgeChunks, one per section
   added |-> 0,             \* addConversation calls made
   compactEntries |-> <<>>, \* this.compactEntries: the ids of the entries
                            \* each summary counts (compactedCount of them)
   compacting |-> {},       \* compact calls at an await: [call, pc, chunk,
                            \* remainder]
   compactCalls |-> 0,      \* compact calls made
   lastSearch |-> NoSearch] \* the last search call and what it returned

InitMem == mem = NewMemory

\* String.prototype.toLowerCase, on the characters sources are made of
LowerChar(ch) == IF ch = "C" THEN "c" ELSE ch
ToLowerCase(s) == [i \in 1..Len(s) |-> LowerChar(s[i])]

RECURSIVE TrimStart(_)
TrimStart(s) == IF s # <<>> /\ Head(s) = " " THEN TrimStart(Tail(s)) ELSE s

RECURSIVE TrimEnd(_)
TrimEnd(s) ==
  IF s # <<>> /\ s[Len(s)] = " " THEN TrimEnd(SubSeq(s, 1, Len(s) - 1)) ELSE s

\* String.prototype.trim
Trim(s) == TrimEnd(TrimStart(s))

\* .slice(-n) of an array
LastN(seq, n) == IF Len(seq) <= n THEN seq ELSE SubSeq(seq, Len(seq) - n + 1, Len(seq))

\* 6 * 60 * 60 * 1000 ms, in units of 3 hours
SixHours == 2

\* String(prev.source || "").toLowerCase() !== source, where source is
\* String(entry.source).trim().toLowerCase()
SameSource(prevSource, source) == ToLowerCase(prevSource) = ToLowerCase(Trim(source))

\* shouldSkipConversationEntry(entry, recentEntries) for an entry whose
\* content is neither empty, nor a health ping, nor an autonomous-cycle
\* message: the loop over the recent entries.  Actors and contents are
\* already trimmed and in lower case.
ShouldSkipConversationEntry(entry, recentEntries) ==
  LET recent == LastN(recentEntries, RecentWindow) IN
  \E i \in 1..Len(recent) :
    /\ recent[i].actor = entry.actor
    /\ SameSource(recent[i].source, entry.source)
    /\ recent[i].tok = entry.tok
    /\ entry.at >= recent[i].at
    /\ entry.at - recent[i].at < SixHours

\* addConversation({actor, content, source, sessionKey}): the skip test, the
\* raw entry, appendDailyLog and appendSessionMemory
StoreConversation(m, actor, source, tok, key) ==
  LET entry == [id |-> m.added + 1, key |-> key, tok |-> tok, actor |-> actor,
                source |-> source, at |-> m.now]
      turn == [actor |-> actor, source |-> source, tok |-> tok, at |-> m.now]
  IN IF ShouldSkipConversationEntry(entry, m.rawEntries)
     THEN [m EXCEPT !.added = @ + 1,
                    !.turns = Append(@, turn @@ [stored |-> FALSE])]
     ELSE [m EXCEPT
            !.added = @ + 1,
            !.turns = Append(@, turn @@ [stored |-> TRUE]),
            !.rawEntries = Append(@, entry),
            !.files = @ \cup
              {[sourceType |-> "memory_daily", path |-> <<"daily", "/", "day", ".md">>,
                session |-> key, tok |-> tok, owner |-> key],
               [sourceType |-> "session", path |-> SessionFilePath(key),
                session |-> <<>>, tok |-> tok, owner |-> key]}]

\* a user turn of one channel stored under a session key
AddConversation(key, tok) ==
  /\ mem.added < MaxEntries
  /\ mem' = StoreConversation(mem, "user", <<"c">>, tok, key)
  /\ UNCHANGED notMem

\* the sources of the duplicate scenario: one channel, written with and
\* without a trailing blank
TurnSources == {<<"c">>, <<"c", " ">>}

\* a turn of session key "a"
AppendTurn(actor, source, tok) ==
  /\ mem.added < MaxTurns
  /\ mem' = StoreConversation(mem, actor, source, tok, <<"a">>)
  /\ UNCHANGED notMem

Min(a, b) == IF a < b THEN a ELSE b

\* compact() up to `await this.memoryFlushBeforeCompaction(...)`; it returns
\* null at once for a raw log of at most keepRecentRaw + 20 entries
Compact ==
  /\ mem.compactCalls < MaxCompactions
  /\ mem' = IF Len(mem.rawEntries) <= KeepRecentRaw + CompactSlack
            THEN [mem EXCEPT !.compactCalls = @ + 1]
            ELSE [mem EXCEPT !.compactCalls = @ + 1,
                             !.compacting = @ \cup {[call |-> mem.compactCalls + 1,
                                                     pc |-> "flush",
                                                     chunk |-> <<>>,
                                                     remainder |-> <<>>]}]
  /\ UNCHANGED notMem

\* compact() from the end of the flush to its next await: chunk and
\* remainder are sliced from this.rawEntries
CompactSlices(c) ==
  /\ c \in mem.compacting
  /\ c.pc = "flush"
  /\ LET movable == Min(BatchSize, Len(mem.rawEntries) - KeepRecentRaw)
     IN mem' = IF movable <= 0
               THEN [mem EXCEPT !.compacting = @ \ {c}]
               ELSE [mem EXCEPT !.compacting = (@ \ {c}) \cup
                       {[c EXCEPT !.pc = "write",
                                  !.chunk = SubSeq(mem.rawEntries, 1, movable),
                                  !.remainder = SubSeq(mem.rawEntries, movable + 1,
                                                       Len(mem.rawEntries))]}]
  /\ UNCHANGED notMem

\* compact() after `await writeJsonl(this.rawPath, remainder)`:
\* this.rawEntries = remainder, this.compactEntries.push(summary)
CompactCommits(c) ==
  /\ c \in mem.compacting
  /\ c.pc = "write"
  /\ mem' = [mem EXCEPT !.compacting = @ \ {c},
                        !.rawEntries = c.remainder,
                        !.compactEntries =
                          Append(@, [i \in 1..Len(c.chunk) |-> c.chunk[i].id])]
  /\ UNCHANGED notMem

\* three hours pass
ClockAdvances ==
  /\ mem.now < MaxClock
  /\ mem' = [mem EXCEPT !.now = @ + 1]
  /\ UNCHANGED notMem

\* the index sync that follows markIndexDirty
SyncIndex ==
  /\ mem.knowledgeChunks # mem.files
  /\ mem' = [mem EXCEPT !.knowledgeChunks = mem.files]
  /\ UNCHANGED notMem

\* the chunks scoreKnowledge keeps for query token tok
ScoreKnowledge(m, tok, key, mode) ==
  LET strictSessionFile == SafeSessionFileName(key) \o <<".md">> IN
  {ch \in m.knowledgeChunks :
     /\ ~(mode = "session_strict"
          /\ ~(ch.sourceType = "session" /\ EndsWith(ch.path, strictSessionFile)))
     /\ ~(ch.sourceType = "session" /\ ~EndsWith(ch.path, strictSessionFile))
     /\ ~(ch.sourceType = "memory_daily" /\ ch.session # <<>> /\ ch.session # key)
     /\ ch.tok = tok}

\* the raw entries search keeps
ScoreRaw(m, tok, key, mode) ==
  {e \in {m.rawEntries[i] : i \in 1..Len(m.rawEntries)} :
     /\ ~(mode = "session_strict" /\ e.key # key)
     /\ ~(e.key # <<>> /\ e.key # key)
     /\ e.tok = tok}

\* search(query, limit, {sessionKey, mode}) with a non-empty session key and
\* a limit that cuts nothing off: the owners and tokens of the items returned
SearchItems(m, tok, key, mode) ==
  {[owner |-> ch.owner, tok |-> ch.tok, sourceType |-> ch.sourceType] :
     ch \in ScoreKnowledge(m, tok, key, mode)}
  \cup {[owner |-> e.key, tok |-> e.tok, sourceType |-> "raw"] :
          e \in ScoreRaw(m, tok, key, mode)}

Search(key, tok, mode) ==
  /\ mem' = [mem EXCEPT !.lastSearch =
               [key |-> key, tok |-> tok, mode |-> mode,
                items |-> SearchItems(mem, tok, key, mode)]]
  /\ UNCHANGED notMem

NextTurns ==
  \/ \E actor \in {"user", "assistant"}, source \in TurnSources, tok \in Tokens :
       AppendTurn(actor, source, tok)
  \/ ClockAdvances

NextCompact ==
  \/ \E actor \in {"user", "assistant"}, tok \in Tokens :
       AppendTurn(actor, <<"c">>, tok)
  \/ Compact
  \/ \E c \in mem.compacting : CompactSlices(c)
  \/ \E c \in mem.compacting : CompactCommits(c)

NextMemory ==
  \/ \E key \in StoreKeys, tok \in Tokens : AddConversation(key, tok)
  \/ SyncIndex
  \/ \E key \in StoreKeys, tok \in Tokens, mode \in {"session_strict", "global"} :
       Search(key, tok, mode)


\* ----------------------------------------------------------- ObjectiveQueue

KnownStatuses == {"pending", "in_progress", "blocked", "completed", "failed", "cancelled"}
\* the statuses update() is called with
GivenStatuses == {"completed", "blocked", " Completed", "bogus"}

\* normalizeStatus(value): trim, lower case, "pending" for anything unknown
NormalizeStatus(value) ==
  IF value \in KnownStatuses THEN value
  ELSE IF value = " Completed" THEN "completed"
  ELSE "pending"

NoRead == [state |-> "none", objectives |-> <<>>]
NoCall == [op |-> "none"]

\* the constructor and init() over a file without objectives
NewQueue ==
  [objectives |-> <<>>,   \* this.objectives: [id, title, description, priority,
                          \* status]
   file |-> <<>>,         \* the objectives of the file at this.path
   nextId |-> 1,          \* ids handed out (crypto.randomUUID())
   calls |-> {},          \* add and update calls at `await this.persist()`:
                          \* [op, id, status, body, overlapped], body being
                          \* the objectives serialised when persist() was
                          \* called, overlapped (history) whether another
                          \* update of the same id ran during the call
   reload |-> NoRead,     \* the reload call in flight and what it has read
   updates |-> 0,         \* update calls made
   reloads |-> 0,         \* reload calls made
   tickOps |-> 0,         \* markPicked and expireStale calls made
   \* history
   added |-> {},          \* the objectives as add() returned them
   returned |-> NoCall]   \* the call that has just returned, if the last
                          \* step was a return

InitOq == oq = NewQueue

\* getById(id)
GetById(q, id) == {i \in 1..Len(q.objectives) : q.objectives[i].id = id}

\* list(): the objectives held, whatever their order
List(q) == q.objectives

\* add({title, description, priority}) up to its await
Add(title, description, priority) ==
  /\ oq.nextId <= MaxObjectives
  /\ LET o == [id |-> oq.nextId, title |-> title, description |-> description,
               priority |-> priority, status |-> "pending"]
         objs == Append(oq.objectives, o)
     IN oq' = [oq EXCEPT !.objectives = objs,
                         !.nextId = @ + 1,
                         !.returned = NoCall,
                         !.calls = @ \cup {[op |-> "add", id |-> o.id,
                                            status |-> "pending", body |-> objs,
                                            overlapped |-> FALSE]}]
  /\ UNCHANGED notOq

\* update({id, status}) of an objective add() has returned, up to its await;
\* it throws when getById finds nothing
Update(id, status) ==
  /\ oq.updates < MaxUpdates
  /\ \E o \in oq.added : o.id = id
  /\ LET found == GetById(oq, id) IN
     IF found = {}
     THEN oq' = [oq EXCEPT !.updates = @ + 1, !.returned = NoCall]
     ELSE LET i == CHOOSE i \in found : \A j \in found : i <= j
              objs == [oq.objectives EXCEPT ![i].status = NormalizeStatus(status)]
              same == {c \in oq.calls : c.op = "update" /\ c.id = id}
          IN oq' = [oq EXCEPT !.updates = @ + 1,
                              !.returned = NoCall,
                              !.objectives = objs,
                              !.calls = (@ \ same)
                                        \cup {[c EXCEPT !.overlapped = TRUE] : c \in same}
                                        \cup {[op |-> "update", id |-> id,
                                               status |-> status, body |-> objs,
                                               overlapped |-> same # {}]}]
  /\ UNCHANGED notOq

\* persist() of a call completes (the rename of writeFileAtomic) and the call
\* returns
PersistReturns(call) ==
  /\ call \in oq.calls
  /\ oq' = [oq EXCEPT !.calls = @ \ {call},
                      !.returned = call,
                      !.file = call.body,
                      !.added = IF call.op = "add"
                                THEN @ \cup {o \in {call.body[i] : i \in 1..Len(call.body)} :
                                               o.id = call.id}
                                ELSE @]
  /\ UNCHANGED notOq

\* reload(): readJsonOrDefault reads the file
ReloadReads ==
  /\ oq.reloads < MaxReloads
  /\ oq.reload.state = "none"
  /\ oq' = [oq EXCEPT !.reloads = @ + 1,
                      !.returned = NoCall,
                      !.reload = [state |-> "read", objectives |-> oq.file]]
  /\ UNCHANGED notOq

\* reload() resumes: this.objectives = state.objectives
ReloadAssigns ==
  /\ oq.reload.state = "read"
  /\ oq' = [oq EXCEPT !.objectives = oq.reload.objectives, !.reload = NoRead,
                      !.returned = NoCall]
  /\ UNCHANGED notOq

FINAL_STATUSES == {"completed", "failed", "cancelled"}

\* markPicked(id) up to its await; it returns at once for an id it does not
\* hold and for an objective in a final status
MarkPicked(id) ==
  /\ oq.tickOps < MaxTickOps
  /\ LET found == GetById(oq, id) IN
     IF found = {}
     THEN oq' = [oq EXCEPT !.tickOps = @ + 1, !.returned = NoCall]
     ELSE LET i == CHOOSE i \in found : \A j \in found : i <= j IN
          IF oq.objectives[i].status \in FINAL_STATUSES
          THEN oq' = [oq EXCEPT !.tickOps = @ + 1, !.returned = NoCall]
          ELSE LET objs == [oq.objectives EXCEPT ![i].status = "in_progress"] IN
               oq' = [oq EXCEPT !.tickOps = @ + 1,
                                !.returned = NoCall,
                                !.objectives = objs,
                                !.calls = @ \cup {[op |-> "markPicked", id |-> id,
                                                   status |-> "in_progress",
                                                   body |-> objs,
                                                   overlapped |-> FALSE]}]
  /\ UNCHANGED notOq

\* the status expireStale leaves an objective in, old saying whether its age
\* or idle time is above the cutoff
ExpiredStatus(status, old) ==
  IF NormalizeStatus(status) \in FINAL_STATUSES THEN status
  ELSE IF status = "pending" /\ old THEN "cancelled"
  ELSE IF status = "in_progress" /\ old THEN "blocked"
  ELSE status

\* expireStale() up to its await, stale being the ids of the objectives older
\* than the cutoffs; it persists only when it changed an objective
ExpireStale(stale) ==
  /\ oq.tickOps < MaxTickOps
  /\ LET objs == [i \in 1..Len(oq.objectives) |->
                   [oq.objectives[i] EXCEPT
                      !.status = ExpiredStatus(@, oq.objectives[i].id \in stale)]]
     IN oq' = [oq EXCEPT !.tickOps = @ + 1,
                         !.returned = NoCall,
                         !.objectives = objs,
                         !.calls = IF objs = oq.objectives THEN @
                                   ELSE @ \cup {[op |-> "expireStale", id |-> 0,
                                                  status |-> "none", body |-> objs,
                                                  overlapped |-> FALSE]}]
  /\ UNCHANGED notOq

NextObjectives ==
  \/ \E title \in {"x", "y"}, priority \in {1, 3} : Add(title, "d", priority)
  \/ \E id \in 1..MaxObjectives, status \in GivenStatuses : Update(id, status)
  \/ \E call \in oq.calls : PersistReturns(call)
  \/ ReloadReads
  \/ ReloadAssigns

\* the queue under its callers and the autonomous tick
NextTerminal ==
  \/ Add("x", "d", 1)
  \/ \E id \in 1..MaxObjectives : Update(id, "completed")
  \/ \E call \in oq.calls : PersistReturns(call)
  \/ ReloadReads
  \/ ReloadAssigns
  \/ \E id \in 1..MaxObjectives : MarkPicked(id)
  \/ \E stale \in {{}, 1..MaxObjectives} : ExpireStale(stale)


\* --------------------------------------------------------- ChromeController

ChromeCalls == 1..MaxChromeCalls

IdleCall == [pc |-> "idle", victim |-> 0, browser |-> 0]

\* the constructor, in launch mode with an executable path
NewController(maxSessions) ==
  [maxSessions |-> maxSessions,
   browser |-> 0,          \* this.browser, 0 for null
   sessions |-> <<>>,      \* this.sessions: [id, browser], the least recently
                           \* updated first
   running |-> {},         \* the browsers chromium.launch has started and
                           \* nothing has closed
   nextBrowser |-> 1,
   nextSession |-> 1,
   calls |-> [c \in ChromeCalls |-> IdleCall]]

InitChrome == chrome = NewController(MaxSessionsCap)

SessionIds(ch) == {ch.sessions[i].id : i \in 1..Len(ch.sessions)}

DeleteSession(sessions, id) == SelectSeq(sessions, LAMBDA s : s.id # id)

\* ensureCapacity: `this.sessions.size < this.maxSessions` fails
AtCapacity(ch) == Len(ch.sessions) >= ch.maxSessions

\* ensureBrowser() up to its await, in a call c of openSession
EnsureBrowser(ch, c) ==
  IF ch.browser # 0
  THEN [ch EXCEPT !.calls[c] = [pc |-> "opening", victim |-> 0, browser |-> ch.browser]]
  ELSE [ch EXCEPT !.calls[c] = [pc |-> "launching", victim |-> 0, browser |-> 0]]

\* openSession() up to its first await on the browser: ensureCapacity, which
\* starts closing the least recently updated session when the map is full,
\* or else ensureBrowser
OpenSession(c) ==
  /\ chrome.calls[c].pc = "idle"
  /\ chrome' = IF AtCapacity(chrome) /\ Len(chrome.sessions) > 0
               THEN [chrome EXCEPT !.calls[c] = [pc |-> "evicting",
                                                 victim |-> chrome.sessions[1].id,
                                                 browser |-> 0]]
               ELSE EnsureBrowser(chrome, c)
  /\ UNCHANGED notChrome

\* closeSession(oldest.id) of ensureCapacity completes, then ensureBrowser
EvictDone(c) ==
  /\ chrome.calls[c].pc = "evicting"
  /\ chrome' = EnsureBrowser([chrome EXCEPT !.sessions = DeleteSession(@, chrome.calls[c].victim)], c)
  /\ UNCHANGED notChrome

\* chromium.launch resolves: this.browser = the browser launched
LaunchDone(c) ==
  /\ chrome.calls[c].pc = "launching"
  /\ chrome' = [chrome EXCEPT !.browser = chrome.nextBrowser,
                              !.running = @ \cup {chrome.nextBrowser},
                              !.nextBrowser = @ + 1,
                              !.calls[c] = [pc |-> "opening", victim |-> 0,
                                            browser |-> chrome.nextBrowser]]
  /\ UNCHANGED notChrome

\* the context and the page are open: this.sessions.set(session.id, session)
OpenDone(c) ==
  /\ chrome.calls[c].pc = "opening"
  /\ chrome' = [chrome EXCEPT !.sessions = Append(@, [id |-> chrome.nextSession,
                                                      browser |-> chrome.calls[c].browser]),
                              !.nextSession = @ + 1,
                              !.calls[c] = [IdleCall EXCEPT !.pc = "done"]]
  /\ UNCHANGED notChrome

\* navigate, click, type, ... on a session: session.updatedAt = now
Touch(id) ==
  /\ id \in SessionIds(chrome)
  /\ chrome.sessions[Len(chrome.sessions)].id # id
  /\ chrome' = [chrome EXCEPT !.sessions =
                  Append(DeleteSession(@, id),
                         CHOOSE s \in {chrome.sessions[i] : i \in 1..Len(chrome.sessions)} : s.id = id)]
  /\ UNCHANGED notChrome

\* closeSession(id) by a caller, up to its first await; getSession throws
\* for an id the map does not hold
CloseSession(c, id) ==
  /\ chrome.calls[c].pc = "idle"
  /\ id \in 1..(chrome.nextSession - 1)
  /\ chrome' = IF id \in SessionIds(chrome)
               THEN [chrome EXCEPT !.calls[c] = [pc |-> "closing", victim |-> id, browser |-> 0]]
               ELSE [chrome EXCEPT !.calls[c] = [IdleCall EXCEPT !.pc = "done"]]
  /\ UNCHANGED notChrome

\* closeSession resumes: this.sessions.delete(sessionId)
CloseDone(c) ==
  /\ chrome.calls[c].pc = "closing"
  /\ chrome' = [chrome EXCEPT !.sessions = DeleteSession(@, chrome.calls[c].victim),
                              !.calls[c] = [IdleCall EXCEPT !.pc = "done"]]
  /\ UNCHANGED notChrome

NextChrome ==
  \/ \E c \in ChromeCalls : OpenSession(c)
  \/ \E c \in ChromeCalls : EvictDone(c)
  \/ \E c \in ChromeCalls : LaunchDone(c)
  \/ \E c \in ChromeCalls : OpenDone(c)
  \/ \E id \in 1..MaxChromeCalls : Touch(id)
  \/ \E c \in ChromeCalls, id \in 1..MaxChromeCalls : CloseSession(c, id)
  \/ \E c \in ChromeCalls : CloseDone(c)


\* ---------------------------------------------------------- RuntimeEventBus

Listeners == 1..MaxListeners

\* the constructor, enabled
NewBus ==
  [seq |-> 0,
   listeners |-> {},
   buffer |-> <<>>,        \* the ring, events being named by their seq
   pending |-> <<>>,
   flushTimer |-> FALSE,   \* whether the flush timer is armed
   flushInFlight |-> FALSE,
   batch |-> <<>>,         \* the batch of the flush in flight
   file |-> <<>>,          \* the events of the file at eventsPath
   \* history
   emitted |-> <<>>,       \* the seq of every event, in the order of the emits
   received |-> [l \in Listeners |-> <<>>]]   \* what each listener was called with

InitBus == bus = NewBus

SameSeq(seq) == seq
\* emit: `seq: (this.seq += 1)`
NextSeq(seq) == seq + 1

\* this.buffer.push(event), and shift() once over bufferSize
PushRing(buffer, event) ==
  LET pushed == Append(buffer, event)
  IN IF Len(pushed) > BufferSize THEN Tail(pushed) ELSE pushed

\* scheduleFlush()
ScheduleFlush(b) ==
  IF b.flushTimer \/ b.flushInFlight THEN b ELSE [b EXCEPT !.flushTimer = TRUE]

\* flush() up to its first await
Flush(b) ==
  IF b.flushInFlight \/ Len(b.pending) = 0 THEN b
  ELSE [b EXCEPT !.flushInFlight = TRUE, !.batch = b.pending, !.pending = <<>>]

\* emit(type, payload); the listeners of the program write the event to a
\* response and return
Emit ==
  /\ bus.seq < MaxEvents
  /\ LET event == NextSeq(bus.seq)
     IN bus' = ScheduleFlush(
                 [bus EXCEPT !.seq = event,
                             !.buffer = PushRing(@, event),
                             !.received = [l \in Listeners |->
                                             IF l \in bus.listeners
                                             THEN Append(@[l], event) ELSE @[l]],
                             !.pending = Append(@, event),
                             !.emitted = Append(@, event)])
  /\ UNCHANGED notBus

\* on(listener)
On(l) ==
  /\ l \notin bus.listeners
  /\ bus' = [bus EXCEPT !.listeners = @ \cup {l}]
  /\ UNCHANGED notBus

\* the function on(listener) returned
Off(l) ==
  /\ l \in bus.listeners
  /\ bus' = [bus EXCEPT !.listeners = @ \ {l}]
  /\ UNCHANGED notBus

\* the timer of scheduleFlush fires
FlushTimerFires ==
  /\ bus.flushTimer
  /\ bus' = Flush([bus EXCEPT !.flushTimer = FALSE])
  /\ UNCHANGED notBus

\* the finally block of flush()
FlushFinally(b) == ScheduleFlush([b EXCEPT !.flushInFlight = FALSE, !.batch = <<>>])

\* fs.appendFile of the flush in flight resolves, after rotateIfNeeded has
\* or has not renamed the file away
FlushAppends(rotated) ==
  /\ bus.flushInFlight
  /\ bus' = FlushFinally([bus EXCEPT !.file = (IF rotated THEN <<>> ELSE @) \o bus.batch])
  /\ UNCHANGED notBus

\* ensureDir or fs.appendFile rejects: the batch is dropped
FlushFails ==
  /\ bus.flushInFlight
  /\ bus' = FlushFinally(bus)
  /\ UNCHANGED notBus

\* shutdown() up to its await
BusShutdown ==
  /\ bus.flushTimer \/ Len(bus.pending) > 0
  /\ bus' = Flush([bus EXCEPT !.flushTimer = FALSE])
  /\ UNCHANGED notBus

NextBus ==
  \/ Emit
  \/ \E l \in Listeners : On(l)
  \/ \E l \in Listeners : Off(l)
  \/ FlushTimerFires
  \/ \E rotated \in BOOLEAN : FlushAppends(rotated)
  \/ FlushFails
  \/ BusShutdown


\* ------------------------------------- NxClawRuntime.runPromptWithRetry

\* the runtime of one lane and its session, no request being handled;
\* maxRetries is Math.max(1, maxPromptRetries || 2)
NewRun(maxRetries, maxOverflow) ==
  [maxRetries |-> maxRetries,
   maxOverflowCompactionAttempts |-> maxOverflow,
   pc |-> "idle",          \* "idle" | "prompt" (at the await of withTimeout)
                           \* | "compact" (at the await of compact)
   attempt |-> 0,
   overflowCompactionAttempts |-> 0,
   overflowTruncationAttempts |-> 0,
   outstanding |-> 0,      \* session.prompt calls that have not settled
   runs |-> 0,             \* runPromptWithRetry calls made
   \* history
   calls |-> 0,            \* session.prompt calls of the current request
   cycleCalls |-> 0,       \* those made by the `continue` of a recovery
   result |-> "none"]      \* "ok" | "failed": what the last call returned

InitRun == run = NewRun(MaxPromptRetriesCap, MaxOverflowCap)

\* const maxAttempts = maxRetries + this.maxOverflowCompactionAttempts + 1
MaxAttempts(r) == r.maxRetries + r.maxOverflowCompactionAttempts + 1

\* the head of the for loop: the test, then session.prompt(prompt) under
\* withTimeout; cycle tells whether a recovery's `continue` led here
NextAttempt(r, cycle) ==
  IF r.attempt + 1 > MaxAttempts(r)
  THEN [r EXCEPT !.pc = "idle", !.result = "failed"]
  ELSE [r EXCEPT !.attempt = @ + 1,
                 !.pc = "prompt",
                 !.outstanding = @ + 1,
                 !.calls = @ + 1,
                 !.cycleCalls = IF cycle THEN @ + 1 ELSE @]

\* the catch block from `runtime.run.attempt.error` on
AttemptError(r, isOverflow) ==
  IF ~isOverflow /\ r.attempt >= r.maxRetries
  THEN [r EXCEPT !.pc = "idle", !.result = "failed"]
  ELSE NextAttempt(r, FALSE)

\* the catch block up to its await, for an error that is or is not a
\* context overflow
Catch(r, isOverflow) ==
  IF isOverflow /\ r.overflowCompactionAttempts < r.maxOverflowCompactionAttempts
  THEN [r EXCEPT !.overflowCompactionAttempts = @ + 1, !.pc = "compact"]
  ELSE AttemptError(r, isOverflow)

\* runPromptWithRetry(prompt, incoming, session) up to its first await
RunPromptWithRetry ==
  /\ run.pc = "idle"
  /\ run.runs < MaxPromptRuns
  /\ run' = NextAttempt([run EXCEPT !.runs = @ + 1,
                                    !.attempt = 0,
                                    !.overflowCompactionAttempts = 0,
                                    !.overflowTruncationAttempts = 0,
                                    !.calls = 0,
                                    !.cycleCalls = 0,
                                    !.result = "none"], FALSE)
  /\ UNCHANGED notRun

\* the awaited session.prompt resolves: return {ok: true, attempt}
PromptResolves ==
  /\ run.pc = "prompt"
  /\ run' = [run EXCEPT !.pc = "idle", !.result = "ok", !.outstanding = @ - 1]
  /\ UNCHANGED notRun

\* the awaited session.prompt rejects
PromptRejects(isOverflow) ==
  /\ run.pc = "prompt"
  /\ run' = Catch([run EXCEPT !.outstanding = @ - 1], isOverflow)
  /\ UNCHANGED notRun

\* the timer of withTimeout rejects the race; the session.prompt call goes
\* on, and "Prompt timeout after ...ms" is no overflow message
PromptTimesOut ==
  /\ run.pc = "prompt"
  /\ run' = Catch(run, FALSE)
  /\ UNCHANGED notRun

\* a session.prompt call whose race was lost settles
AbandonedPromptSettles ==
  /\ run.outstanding > (IF run.pc = "prompt" THEN 1 ELSE 0)
  /\ run' = [run EXCEPT !.outstanding = @ - 1]
  /\ UNCHANGED notRun

\* memoryStore.compact settles with a result or with null; for null the
\* session history is trimmed once, if it has 14 messages or more
CompactSettles(compacted, trimmable) ==
  /\ run.pc = "compact"
  /\ run' = IF compacted THEN NextAttempt(run, TRUE)
            ELSE IF run.overflowTruncationAttempts < 1
            THEN LET r == [run EXCEPT !.overflowTruncationAttempts = @ + 1]
                 IN IF trimmable THEN NextAttempt(r, TRUE)
                    ELSE AttemptError(r, TRUE)
            ELSE AttemptError(run, TRUE)
  /\ UNCHANGED notRun

NextRun ==
  \/ RunPromptWithRetry
  \/ PromptResolves
  \/ \E isOverflow \in BOOLEAN : PromptRejects(isOverflow)
  \/ PromptTimesOut
  \/ AbandonedPromptSettles
  \/ \E compacted \in BOOLEAN, trimmable \in BOOLEAN :
       CompactSettles(compacted, trimmable)


\* --------------------------------- MemoryStore: knowledge index, watchers
\* The markdown files are one version number: every write adds one.

\* the constructor
NewIndex ==
  [closed |-> FALSE,        \* this.closed
   indexDirty |-> TRUE,     \* this.indexDirty
   syncInFlight |-> "none", \* this.syncInFlight: "none" for null, else where
                            \* the sync is: "read" (before it has read the
                            \* files), "embed" (files read, before
                            \* this.knowledgeChunks is assigned), "write"
                            \* (await writeJson of the index file)
   readVersion |-> 0,       \* the version of the files the sync has read
   indexed |-> 0,           \* the version this.knowledgeChunks was built from
   written |-> 0,           \* the version of the files
   watchSyncTimer |-> FALSE,\* this.watchSyncTimer is set
   knowledgeWatchers |-> 0, \* watchers in this.knowledgeWatchers, all open
   starting |-> 0,          \* roots startKnowledgeWatchers has still to
                            \* lstat, 0 when it is not running
   started |-> FALSE,       \* init() has called startKnowledgeWatchers
   syncs |-> 0,             \* syncs started
   events |-> 0,            \* queueWatchSync calls made
   \* history
   shutdownReturned |-> FALSE]

InitKidx == kidx = NewIndex

\* markIndexDirty()
MarkIndexDirty(k) == [k EXCEPT !.indexDirty = TRUE]

\* appendDailyLog / appendSessionMemory after await appendText(...): the
\* file is written, then markIndexDirty()
WriteMarkdown ==
  /\ kidx.written < MaxWrites
  /\ kidx' = MarkIndexDirty([kidx EXCEPT !.written = @ + 1])
  /\ UNCHANGED notKidx

\* syncKnowledgeIndex() up to its first await: nothing when closed, the
\* promise in flight when there is one
SyncKnowledgeIndex(k) ==
  IF k.closed \/ k.syncInFlight # "none" \/ k.syncs >= MaxSyncs THEN k
  ELSE [k EXCEPT !.syncInFlight = "read", !.syncs = @ + 1]

\* init(), the dashboard or compactMemory call syncKnowledgeIndex
SyncCall ==
  /\ ~kidx.closed
  /\ kidx.syncInFlight = "none"
  /\ kidx.syncs < MaxSyncs
  /\ kidx' = SyncKnowledgeIndex(kidx)
  /\ UNCHANGED notKidx

\* the sync has read the files (readTextOrDefault of each)
SyncReads ==
  /\ kidx.syncInFlight = "read"
  /\ kidx' = [kidx EXCEPT !.syncInFlight = "embed", !.readVersion = kidx.written]
  /\ UNCHANGED notKidx

\* after embedTexts: this.knowledgeChunks = ..., this.indexDirty = false,
\* then await writeJson
SyncAssigns ==
  /\ kidx.syncInFlight = "embed"
  /\ kidx' = [kidx EXCEPT !.syncInFlight = "write",
                          !.indexed = kidx.readVersion,
                          !.indexDirty = FALSE]
  /\ UNCHANGED notKidx

\* an await of the sync rejects (catch), or writeJson resolves; finally
\* this.syncInFlight = null
SyncFinally ==
  /\ kidx.syncInFlight # "none"
  /\ kidx' = [kidx EXCEPT !.syncInFlight = "none"]
  /\ UNCHANGED notKidx

\* queueWatchSync(): called by a watcher on a file event, or by
\* scoreKnowledge when the index is dirty
QueueWatchSync ==
  /\ kidx.events < MaxWatchEvents
  /\ kidx.knowledgeWatchers > 0 \/ kidx.indexDirty
  /\ kidx' = IF kidx.closed THEN [kidx EXCEPT !.events = @ + 1]
             ELSE MarkIndexDirty([kidx EXCEPT !.events = @ + 1,
                                              !.watchSyncTimer = TRUE])
  /\ UNCHANGED notKidx

\* the timer of queueWatchSync fires
WatchSyncTimerFires ==
  /\ kidx.watchSyncTimer
  /\ kidx' = SyncKnowledgeIndex([kidx EXCEPT !.watchSyncTimer = FALSE])
  /\ UNCHANGED notKidx

\* closeKnowledgeWatchers()
CloseKnowledgeWatchers(k) == [k EXCEPT !.knowledgeWatchers = 0]

\* watchKnowledgePath(targetPath): fsWatch and push
WatchKnowledgePath(k) == [k EXCEPT !.knowledgeWatchers = @ + 1]

\* init() calls startKnowledgeWatchers(), which runs up to its first
\* await fs.lstat(root)
StartKnowledgeWatchers(roots) ==
  /\ ~kidx.started
  /\ ~kidx.closed
  /\ kidx' = [CloseKnowledgeWatchers(kidx) EXCEPT !.started = TRUE,
                                                  !.starting = roots]
  /\ UNCHANGED notKidx

\* fs.lstat(root) settles: the root is watched when it is a directory or a
\* file, and the loop goes to the next root
LstatSettles(watchable) ==
  /\ kidx.starting > 0
  /\ kidx' = [(IF watchable THEN WatchKnowledgePath(kidx) ELSE kidx)
               EXCEPT !.starting = @ - 1]
  /\ UNCHANGED notKidx

\* shutdown()
MemoryShutdown ==
  /\ ~kidx.closed
  /\ kidx' = [CloseKnowledgeWatchers(kidx) EXCEPT !.closed = TRUE,
                                                  !.watchSyncTimer = FALSE,
                                                  !.shutdownReturned = TRUE]
  /\ UNCHANGED notKidx

NextIndex ==
  \/ WriteMarkdown
  \/ SyncCall
  \/ SyncReads
  \/ SyncAssigns
  \/ SyncFinally
  \/ QueueWatchSync
  \/ WatchSyncTimerFires
  \/ \E roots \in 1..MaxRoots : StartKnowledgeWatchers(roots)
  \/ \E watchable \in BOOLEAN : LstatSettles(watchable)
  \/ MemoryShutdown

\* ------------------------------------------ BackgroundTaskManager.persist
\* this.persistChain in full: every persist() call chains one promise on
\* the one before; links[i] is the promise of the i-th call.

\* the constructor: this.persistChain = Promise.resolve()
NewChain ==
  [links |-> <<>>,      \* per persist() call: "waiting" (its callback has
                        \* not run), "writing" (inside writeJson), "ok" or
                        \* "failed" (settled)
   timer |-> FALSE,     \* this.persistTimer is set
   \* history
   started |-> <<>>]    \* the calls in the order their writeJson began

InitChain == chain = NewChain

WriteEnded == {"ok", "failed"}

Unchained(links, i) == TRUE
\* this.persistChain.catch(() => undefined).then(...): the callback of call
\* i runs once the promise of the call before it has settled, fulfilled or
\* rejected; the first call chains on Promise.resolve()
ChainReady(links, i) == IF i = 1 THEN TRUE ELSE links[i - 1] \in WriteEnded

\* persist() up to its await
PersistCall(c) == [c EXCEPT !.links = Append(@, "waiting")]

ChainPersist ==
  /\ Len(chain.links) < MaxPersists
  /\ chain' = PersistCall(chain)
  /\ UNCHANGED notChain

\* schedulePersist(): nothing when the timer is set
SchedulePersist ==
  /\ ~chain.timer
  /\ Len(chain.links) < MaxPersists
  /\ chain' = [chain EXCEPT !.timer = TRUE]
  /\ UNCHANGED notChain

\* the timer of schedulePersist fires: void this.persist()
PersistTimerFires ==
  /\ chain.timer
  /\ Len(chain.links) < MaxPersists
  /\ chain' = PersistCall([chain EXCEPT !.timer = FALSE])
  /\ UNCHANGED notChain

\* the callback of call i runs: writeJson(this.statePath, ...) begins
WriteStarts(i) ==
  /\ i \in 1..Len(chain.links)
  /\ chain.links[i] = "waiting"
  /\ ChainReady(chain.links, i)
  /\ chain' = [chain EXCEPT !.links[i] = "writing", !.started = Append(@, i)]
  /\ UNCHANGED notChain

\* writeJson of call i resolves or rejects
WriteEnds(i, fail) ==
  /\ i \in 1..Len(chain.links)
  /\ chain.links[i] = "writing"
  /\ chain' = [chain EXCEPT !.links[i] = IF fail THEN "failed" ELSE "ok"]
  /\ UNCHANGED notChain

NextChain ==
  \/ ChainPersist
  \/ SchedulePersist
  \/ PersistTimerFires
  \/ \E i \in 1..MaxPersists : WriteStarts(i)
  \/ \E i \in 1..MaxPersists, fail \in BOOLEAN : WriteEnds(i, fail)

\* ------------------------------------------- utils/fs.js: writeFileAtomic

Writers == 1..MaxWriters

\* a file's content: the version it belongs to (0 = written by an earlier
\* run, w = the content passed to call w) and how much of it is there
Absent == [ver |-> -1, len |-> 0]
Complete(ver) == [ver |-> ver, len |-> FullLen]

\* paths: 0 is filePath, w the tempPath of call w, made unique by pid, time
\* and a random suffix
TempPathIsFilePath(w) == 0
TempPath(w) == w

\* the files before any call, the state file being there or not
NewFs(target) ==
  [files |-> [p \in 0..MaxWriters |-> IF p = 0 THEN target ELSE Absent],
   pc |-> [w \in Writers |-> "idle"],
   alive |-> TRUE]

InitFs == fs = NewFs(Complete(0))

\* call w of writeFileAtomic moves from pc from to pc to, leaving files
FsStep(w, from, to, files) ==
  /\ fs.alive
  /\ fs.pc[w] = from
  /\ fs' = [fs EXCEPT !.pc[w] = to, !.files = files]
  /\ UNCHANGED notFs

\* writeFileAtomic(filePath, content) is called: await ensureDir(...)
WriteFileAtomic(w) == FsStep(w, "idle", "mkdir", fs.files)

\* fs.open(tempPath, "w", mode) creates the file, or empties it
FsOpen(w) ==
  FsStep(w, "mkdir", "open", [fs.files EXCEPT ![TempPath(w)] = [ver |-> w, len |-> 0]])

\* handle.writeFile(content) reaches the file chunk by chunk
FsWrite(w) ==
  LET f == fs.files[TempPath(w)]
      g == [f EXCEPT !.len = @ + 1]
  IN /\ f.len < FullLen
     /\ FsStep(w, "open", IF g.len = FullLen THEN "written" ELSE "open",
               [fs.files EXCEPT ![TempPath(w)] = g])

FsSync(w) == FsStep(w, "written", "synced", fs.files)

FsClose(w) == FsStep(w, "synced", "closed", fs.files)

\* fs.rename(tempPath, filePath): filePath gets the temp file's content in
\* one step and tempPath is gone
FsRename(w) ==
  FsStep(w, "closed", "renamed",
         IF TempPath(w) = 0 THEN fs.files
         ELSE [fs.files EXCEPT ![0] = fs.files[TempPath(w)],
                               ![TempPath(w)] = Absent])

\* the finally block: fs.rm(tempPath, {force: true})
FsRm(w) ==
  \E from \in {"renamed", "failed"} :
    FsStep(w, from, IF from = "renamed" THEN "done" ELSE "rejected",
           [fs.files EXCEPT ![TempPath(w)] = Absent])

\* one of the awaited calls of the try block rejects
FsFail(w) ==
  \E from \in {"mkdir", "open", "written", "synced", "closed"} :
    FsStep(w, from, IF from = "mkdir" THEN "rejected" ELSE "failed", fs.files)

\* the process is killed: no call of it takes another step
ProcessKilled ==
  /\ fs.alive
  /\ fs' = [fs EXCEPT !.alive = FALSE]
  /\ UNCHANGED notFs

NextFs ==
  \/ \E w \in Writers : WriteFileAtomic(w)
  \/ \E w \in Writers : FsOpen(w)
  \/ \E w \in Writers : FsWrite(w)
  \/ \E w \in Writers : FsSync(w)
  \/ \E w \in Writers : FsClose(w)
  \/ \E w \in Writers : FsRename(w)
  \/ \E w \in Writers : FsRm(w)
  \/ \E w \in Writers : FsFail(w)
  \/ ProcessKilled

\* the target file is absent or complete when the first call is made
InitWriteFile ==
  /\ InitLane
  /\ maxDepth = 1
  /\ mgr = NewManager(NoTasks)
  /\ \E target \in {Absent, Complete(0)} : fs = NewFs(target)
  /\ InitLoop
  /\ InitRt
  /\ InitMem
  /\ InitOq
  /\ InitChrome
  /\ InitBus
  /\ InitRun
  /\ InitChain
  /\ InitKidx

SpecFs == InitWriteFile /\ [][NextFs]_vars


\* the loop as constructed from any configuration
InitAnyLoop ==
  /\ InitLane
  /\ maxDepth = 1
  /\ mgr = NewManager(NoTasks)
  /\ InitFs
  /\ \E enabled \in BOOLEAN, max \in 1..MaxFailuresCap : loop = NewLoop(enabled, max)
  /\ InitRt
  /\ InitMem
  /\ InitOq
  /\ InitChrome
  /\ InitBus
  /\ InitRun
  /\ InitChain
  /\ InitKidx

SpecLoop == InitAnyLoop /\ [][NextLoop]_vars


\* a runtime that holds idle sessions for some of the keys
InitRuntimeWith(keys) ==
  /\ lanes = [k \in SessionKeys |-> 0]
  /\ laneDepth = [o \in CbIds |-> 0]
  /\ laneActive = [o \in CbIds |-> 0]
  /\ lanePromise = [o \in CbIds |-> 0]
  /\ totalDepth = 0
  /\ maxDepth \in {ClampMaxDepth(n) : n \in 1..MaxDepthCap}
  /\ cbState = [c \in CbIds |-> "none"]
  /\ cbKey = [c \in CbIds |-> "laneA"]
  /\ cbLane = [c \in CbIds |-> 0]
  /\ cbPred = [c \in CbIds |-> 0]
  /\ nextCb = 1
  /\ mgr = NewManager(NoTasks)
  /\ fs = NewFs(Complete(0))
  /\ InitLoop
  /\ InitMem
  /\ InitOq
  /\ InitChrome
  /\ InitBus
  /\ InitRun
  /\ InitChain
  /\ InitKidx
  /\ \E sessions \in SUBSET keys :
       /\ Cardinality(sessions) <= MaxSessionLanes
       /\ rt = NewRuntime(sessions)

InitRuntime == InitRuntimeWith(SessionKeys)

SpecRuntime == InitRuntime /\ [][NextRuntime]_vars

\* the requests of two session keys only
NextOrder ==
  \/ \E k \in LaneKeys : HandleIncoming(k)
  \/ RunMicrotask
  \/ \E c \in CbIds, fail \in BOOLEAN : IoCompletes(c, fail)
  \/ IdleTimePasses

SpecOrder == InitRuntimeWith(LaneKeys) /\ [][NextOrder]_vars


\* the state files a run of the manager may find with one command left by
\* an earlier run: waiting for its first launch, or running after 1 to k + 1
\* launches when the process was killed
PersistedCommands ==
  {[type |-> "command", status |-> "queued", attempts |-> 0,
    maxRetries |-> k, timeoutMs |-> 0] : k \in 0..MaxRetriesCap}
  \cup UNION {{[type |-> "command", status |-> "running", attempts |-> a,
                 maxRetries |-> k, timeoutMs |-> 0] : a \in {1, k + 1}} :
                k \in 0..MaxRetriesCap}

\* the state files with one schedule left by an earlier run
PersistedSchedules ==
  {[type |-> "schedule", status |-> st, attempts |-> 0,
    maxRetries |-> 0, timeoutMs |-> 0] :
      st \in {"running", "stopped", "cancelled"}}

\* what a state file may hold for one task: a command in any status, a
\* schedule as in PersistedSchedules
PersistedAny ==
  {[type |-> "command", status |-> st, attempts |-> IF st = "queued" THEN 0 ELSE 1,
    maxRetries |-> 0, timeoutMs |-> 0] :
      st \in {"queued", "running", "completed", "failed", "cancelled", "stopped"}}
  \cup PersistedSchedules

\* the state files of one task or more, up to MaxTasks
TaskFiles ==
  {f \in [Tasks -> PersistedAny \cup {NoTask}] :
     /\ f[1] # NoTask
     /\ \A t \in Tasks : (t > 1 /\ f[t] # NoTask) => f[t - 1] # NoTask}

\* a manager constructed over one of the state files
InitManager(files) ==
  /\ InitLane
  /\ maxDepth = 1
  /\ \E p \in files : mgr = NewManager([NoTasks EXCEPT ![1] = p])
  /\ InitFs
  /\ InitLoop
  /\ InitRt
  /\ InitMem
  /\ InitOq
  /\ InitChrome
  /\ InitBus
  /\ InitRun
  /\ InitChain
  /\ InitKidx

Init == InitLane /\ mgr = NewManager(NoTasks) /\ InitFs /\ InitLoop /\ InitRt /\ InitMem /\ InitOq
  /\ InitChrome
  /\ InitBus
  /\ InitRun
  /\ InitChain
  /\ InitKidx

SpecMemory == Init /\ [][NextMemory]_vars

SpecTurns == Init /\ [][NextTurns]_vars

SpecCompact == Init /\ [][NextCompact]_vars

SpecObjectives == Init /\ [][NextObjectives]_vars
SpecTerminal == Init /\ [][NextTerminal]_vars

InitAnyChrome ==
  /\ InitLane
  /\ mgr = NewManager(NoTasks)
  /\ InitFs
  /\ InitLoop
  /\ InitRt
  /\ InitMem
  /\ InitOq
  /\ \E maxSessions \in 1..MaxSessionsCap : chrome = NewController(maxSessions)
  /\ InitBus
  /\ InitRun
  /\ InitChain
  /\ InitKidx

SpecChrome == InitAnyChrome /\ [][NextChrome]_vars

SpecBus == Init /\ [][NextBus]_vars

\* a runtime with any maxPromptRetries and maxOverflowCompactionAttempts
InitAnyRun ==
  /\ InitLane
  /\ mgr = NewManager(NoTasks)
  /\ InitFs
  /\ InitLoop
  /\ InitRt
  /\ InitMem
  /\ InitOq
  /\ InitChrome
  /\ InitBus
  /\ \E maxRetries \in 1..MaxPromptRetriesCap, maxOverflow \in 1..MaxOverflowCap :
       run = NewRun(maxRetries, maxOverflow)
  /\ InitChain
  /\ InitKidx

SpecRun == InitAnyRun /\ [][NextRun]_vars
SpecChain == Init /\ [][NextChain]_vars
SpecIndex == Init /\ [][NextIndex]_vars

\* commands: runCommand and enqueueCommand calls, with retries, timeouts and
\* failing spawns, on a manager started over a state file
NextTasks ==
  \/ ManagerInit
  \/ \E force \in BOOLEAN, k \in 0..MaxRetriesCap, tmo \in {0, 1} :
       RunCommand(force, k, tmo)
  \/ \E t \in Tasks, a \in 1..(MaxRetriesCap + 2) : TimeoutFire(t, a)
  \/ \E t \in Tasks, code \in {0, 1} : ProcClose(t, code)
  \/ QueueTimerFire
  \/ \E i \in 1..MaxTasks : RetryDue(i)
  \/ \E fail \in BOOLEAN : PersistDone(fail)
  \/ \E tok \in IoTokens : IoDone(tok)

SpecTasks == InitManager({NoTask} \cup PersistedCommands) /\ [][NextTasks]_vars

\* commands and stop(taskId) calls on a manager started without a state file
NextStop ==
  \/ ManagerInit
  \/ \E force \in BOOLEAN, tmo \in {0, 1} : RunCommand(force, 0, tmo)
  \/ \E t \in Tasks : Stop(t)
  \/ \E t \in Tasks : TimeoutFire(t, 1)
  \/ \E t \in Tasks, code \in {0, 1} : ProcClose(t, code)
  \/ QueueTimerFire
  \/ PersistDone(FALSE)
  \/ \E tok \in IoTokens : IoDone(tok)

SpecStop == InitManager({NoTask}) /\ [][NextStop]_vars

\* schedules: scheduleCommand, the interval ticks, stop and shutdown on a
\* manager started over a state file (with one schedule and the one command
\* of its tick the pending queue is never left non-empty, so the queue timer
\* is never armed)
NextSchedule ==
  \/ ManagerInit
  \/ ScheduleCommand(0)
  \/ \E s \in Tasks : ScheduleTick(s)
  \/ \E t \in Tasks : Stop(t)
  \/ \E only \in BOOLEAN : Shutdown(only)
  \/ \E t \in Tasks, code \in {0, 1} : ProcClose(t, code)
  \/ PersistDone(FALSE)
  \/ \E tok \in IoTokens : IoDone(tok)

SpecSchedule ==
  InitManager({NoTask} \cup PersistedSchedules) /\ [][NextSchedule]_vars


\* runCommand calls with dedupeRunning, all for one command and cwd, on a
\* manager started without a state file
NextDedupe ==
  \/ ManagerInit
  \/ \E force \in BOOLEAN : RunCommandDedupe(force, 0, 0)
  \/ \E t \in Tasks, code \in {0, 1} : ProcClose(t, code)
  \/ QueueTimerFire
  \/ PersistDone(FALSE)
  \/ \E tok \in IoTokens : IoDone(tok)

SpecDedupe == InitManager({NoTask}) /\ [][NextDedupe]_vars

\* runCommand with dedupeRunning beside scheduleCommand, every call with the
\* same command and cwd
NextSentinel ==
  \/ NextDedupe
  \/ ScheduleCommand(0)
  \/ \E s \in Tasks : ScheduleTick(s)

InitSentinel == InitManager({NoTask})

SpecSentinel == InitSentinel /\ [][NextSentinel]_vars


\* commands that write output, on a manager started without a state file
NextEvents ==
  \/ ManagerInit
  \/ \E force \in BOOLEAN, k \in 0..MaxRetriesCap : RunCommand(force, k, 0)
  \/ \E t \in Tasks : ProcData(t)
  \/ \E t \in Tasks, code \in {0, 1} : ProcClose(t, code)
  \/ QueueTimerFire
  \/ \E i \in 1..MaxTasks : RetryDue(i)
  \/ PersistDone(FALSE)
  \/ \E tok \in IoTokens : IoDone(tok)

SpecEvents == InitManager({NoTask}) /\ [][NextEvents]_vars


\* init() over a state file of several tasks, and what runs from it: the
\* re-queued commands and the ticks of the schedules
NextInit ==
  \/ ManagerInit
  \/ \E s \in Tasks : ScheduleTick(s)
  \/ \E t \in Tasks, code \in {0, 1} : ProcClose(t, code)
  \/ QueueTimerFire
  \/ PersistDone(FALSE)
  \/ \E tok \in IoTokens : IoDone(tok)

\* a manager constructed over any of the state files
InitAnyTaskFile ==
  /\ InitLane
  /\ maxDepth = 1
  /\ \E f \in TaskFiles : mgr = NewManager(f)
  /\ InitFs
  /\ InitLoop
  /\ InitRt
  /\ InitMem
  /\ InitOq
  /\ InitChrome
  /\ InitBus
  /\ InitRun
  /\ InitChain
  /\ InitKidx

SpecInit == InitAnyTaskFile /\ [][NextInit]_vars


\* commands and the shutdown({stopSchedulesOnly: false}) of the runtime, on a
\* manager started without a state file
NextShutdown ==
  \/ ManagerInit
  \/ \E force \in BOOLEAN, k \in 0..MaxRetriesCap : RunCommand(force, k, 0)
  \/ Shutdown(FALSE)
  \/ \E t \in Tasks, code \in {0, 1} : ProcClose(t, code)
  \/ QueueTimerFire
  \/ \E i \in 1..MaxTasks : RetryDue(i)
  \/ PersistDone(FALSE)
  \/ \E tok \in IoTokens : IoDone(tok)

SpecShutdown == InitManager({NoTask}) /\ [][NextShutdown]_vars


\* commands that fail and are retried, on a manager started without a state
\* file
NextRetry ==
  \/ ManagerInit
  \/ \E force \in BOOLEAN : RunCommand(force, MaxRetriesCap, 0)
  \/ \E t \in Tasks, code \in {0, 1} : ProcClose(t, code)
  \/ QueueTimerFire
  \/ \E i \in 1..MaxTasks : RetryDue(i)
  \/ PersistDone(FALSE)
  \/ \E tok \in IoTokens : IoDone(tok)

SpecRetry == InitManager({NoTask}) /\ [][NextRetry]_vars

\* commands of which the first is retried once when it fails; every child
\* exits in the end, every timer fires, every await settles and time reaches
\* every retryAt, while runCommand is called at the callers' will
NextQueue ==
  \/ ManagerInit
  \/ \E force \in BOOLEAN :
       RunCommand(force, IF mgr.nextId = 1 THEN 1 ELSE 0, 0)
  \/ \E t \in Tasks, code \in {0, 1} : ProcClose(t, code)
  \/ QueueTimerFire
  \/ \E i \in 1..MaxTasks : RetryDue(i)
  \/ PersistDone(FALSE)
  \/ \E tok \in IoTokens : IoDone(tok)

InitQueue == InitManager({NoTask})

SpecQueue ==
  /\ InitQueue
  /\ [][NextQueue]_vars
  /\ WF_vars(ManagerInit)
  /\ \A t \in Tasks : WF_vars(\E code \in {0, 1} : ProcClose(t, code))
  /\ WF_vars(QueueTimerFire)
  /\ \A i \in 1..MaxTasks : WF_vars(RetryDue(i))
  /\ WF_vars(PersistDone(FALSE))
  /\ \A tok \in IoTokens : WF_vars(IoDone(tok))

\* the queue of SpecQueue under foreground runCommand calls, with stop() and
\* shutdown() called at will
NextWaiters ==
  \/ ManagerInit
  \/ \E force \in BOOLEAN :
       RunCommandWait(force, IF mgr.nextId = 1 THEN 1 ELSE 0, 0)
  \/ \E t \in Tasks, code \in {0, 1} : ProcClose(t, code)
  \/ QueueTimerFire
  \/ \E i \in 1..MaxTasks : RetryDue(i)
  \/ PersistDone(FALSE)
  \/ \E tok \in IoTokens : IoDone(tok)
  \/ \E t \in Tasks : Stop(t)
  \/ \E stopSchedulesOnly \in BOOLEAN : Shutdown(stopSchedulesOnly)

InitWaiters == InitManager({NoTask})

SpecWaiters ==
  /\ InitWaiters
  /\ [][NextWaiters]_vars
  /\ WF_vars(ManagerInit)
  /\ \A t \in Tasks : WF_vars(\E code \in {0, 1} : ProcClose(t, code))
  /\ WF_vars(QueueTimerFire)
  /\ \A i \in 1..MaxTasks : WF_vars(RetryDue(i))
  /\ WF_vars(PersistDone(FALSE))
  /\ \A tok \in IoTokens : WF_vars(IoDone(tok))


SpecLane == Init /\ [][NextLane]_vars

\* Only the callbacks of laneB are scheduled fairly: laneA's callback may run
\* for ever.
SpecLaneB ==
  /\ Init
  /\ [][NextLane]_vars
  /\ \A c \in CbIds :
       /\ WF_vars(cbKey[c] = "laneB" /\ Then(c) /\ UNCHANGED notLane)
       /\ WF_vars(/\ cbKey[c] = "laneB"
                  /\ \E throws \in BOOLEAN : Finish(c, throws)
                  /\ UNCHANGED notLane)

Accepted(c) == cbState[c] \notin {"none", "overflow"}
Unfinished(c) == cbState[c] \in {"waiting", "running"}
Started(c) == cbState[c] \in {"running", "returned", "threw"}

\* ------------------------------------------------- claims on the LaneQueue

Finished(c) == cbState[c] \in {"returned", "threw"}
SameLane(c, d) == Accepted(c) /\ Accepted(d) /\ cbKey[c] = cbKey[d]

\* C1: on one lane key the callbacks run one at a time and in enqueue order:
\* a callback that has started finds every callback enqueued before it on the
\* same key finished (returned or thrown).
C1_LaneSerialInOrder ==
  \A c, d \in CbIds :
    (SameLane(c, d) /\ d < c /\ Started(c)) => Finished(d)

\* a callback that was chained behind an unfinished one has started after it
C1_Witness ==
  \E c, d \in CbIds :
    /\ SameLane(c, d) /\ d < c /\ cbPred[c] = d
    /\ cbState[c] = "running" /\ Finished(d)

\* C2: an accepted callback of laneB starts and finishes whatever laneA's
\* callbacks do (checked with fairness for laneB's steps only, so laneA's
\* callback may stay running for ever or may have thrown).
C2_OtherLaneNeverWaits ==
  \A c \in CbIds :
    (cbState[c] = "waiting" /\ cbKey[c] = "laneB") ~> Finished(c)

\* laneB's callback was enqueued after laneA's and finished while laneA's was
\* still running
C2_Witness ==
  \E a, b \in CbIds :
    /\ a < b /\ cbKey[a] = "laneA" /\ cbKey[b] = "laneB"
    /\ cbState[a] = "running" /\ Finished(b)

\* C4: an enqueue made while totalDepth >= maxDepth gets the overflow error,
\* leaves totalDepth and every lane's record and counters as they were, and
\* its callback never runs.
C4_OverflowRejects ==
  [][/\ (nextCb' # nextCb /\ totalDepth >= maxDepth)
          => /\ cbState'[nextCb] = "overflow"
             /\ UNCHANGED <<totalDepth, laneDepth, laneActive, lanes>>
     /\ \A c \in CbIds : cbState[c] = "overflow" => cbState'[c] = "overflow"
    ]_vars

C4_Witness ==
  \E c \in CbIds : cbState[c] = "overflow" /\ totalDepth = maxDepth

\* C5 as stated: totalDepth counts the accepted callbacks that have not
\* finished, waiting and running alike.
C5_DepthCountsWaitingAndRunning ==
  totalDepth = Cardinality({c \in CbIds : Unfinished(c)})

\* C5 amended: totalDepth counts the accepted callbacks that have not started
\* yet; a running callback is counted in its lane's active counter only.
C5_DepthCountsWaiting ==
  /\ totalDepth = Cardinality({c \in CbIds : cbState[c] = "waiting"})
  /\ \A k \in LaneKeys :
       lanes[k] # 0 =>
         /\ laneDepth[lanes[k]] =
              Cardinality({c \in CbIds : cbState[c] = "waiting" /\ cbKey[c] = k})
         /\ laneActive[lanes[k]] =
              Cardinality({c \in CbIds : cbState[c] = "running" /\ cbKey[c] = k})

C5_Witness ==
  /\ totalDepth = 1
  /\ \E c, d \in CbIds : cbState[c] = "running" /\ cbState[d] = "waiting"

\* C6: a callback's error is delivered to its own enqueue call only (no other
\* call is rejected without having run), a callback chained behind one that
\* threw still starts, and a lane key with no waiting or running callback has
\* no record.
C6_ErrorStaysInItsCall ==
  /\ \A c \in CbIds : cbState[c] # "skipped"
  /\ \A c \in CbIds :
       (cbState[c] = "waiting" /\ cbPred[c] # 0 /\ cbState[cbPred[c]] = "threw")
         => ENABLED Then(c)
  /\ \A k \in LaneKeys :
       (\A c \in CbIds : ~(Unfinished(c) /\ cbKey[c] = k)) => lanes[k] = 0

C6_Witness ==
  \E c, d \in CbIds :
    /\ SameLane(c, d) /\ cbPred[c] = d
    /\ cbState[d] = "threw" /\ cbState[c] = "returned"
    /\ lanes[cbKey[c]] = 0


\* -------------------------------------- claims on the BackgroundTaskManager

\* the children that were spawned, have not closed and were sent no signal
ChildrenAlive == {t \in Tasks : mgr.procs[t].st = "alive"}

\* C3: at no time are more than maxConcurrentProcesses children of the
\* manager alive.
C3_AtMostMaxChildren == Cardinality(ChildrenAlive) <= maxConcurrentProcesses

\* a launchTaskNow of task t is suspended at its await this.persist()
LaunchPending(t) ==
  \E i \in 1..Len(mgr.persistChain) :
    mgr.persistChain[i].op = "launch" /\ mgr.persistChain[i].t = t

\* C7: a command with maxRetries = k is launched at most k + 1 times in
\* total, whatever its runs end with, and once no launch of it is under way
\* its attempts counter equals the number of launches made.
C7_AtMostKPlusOneLaunches ==
  \A t \in Tasks :
    mgr.tasks[t].type = "command" =>
      /\ mgr.spawned[t] <= mgr.tasks[t].maxRetries + 1
      /\ ~LaunchPending(t) => mgr.tasks[t].attempts = mgr.spawned[t]

\* the call stop(t) has been made and has returned
StopReturned(t) ==
  /\ mgr.stopCalled[t]
  /\ Token("stopLog", t, FALSE) \notin mgr.ioWait
  /\ \A i \in 1..Len(mgr.persistChain) :
       ~(mgr.persistChain[i].op = "stop" /\ mgr.persistChain[i].t = t)
  /\ mgr.dispCaller # t

\* C8: once stop(t) has returned, task t has status cancelled and no entry in
\* the pending queue, and no step after the return spawns a child for it.
C8_StopIsFinal ==
  [][\A t \in Tasks :
       /\ StopReturned(t)' =>
            /\ mgr'.tasks[t].status = "cancelled"
            /\ ~InQueue(mgr', t)
       /\ StopReturned(t) => mgr'.spawned[t] = mgr.spawned[t]
    ]_vars

\* the step is the timeout callback of a launch of t finding t in
\* this.processes
TimeoutActs(t) ==
  /\ t \in mgr.processes
  /\ \E a \in 1..(MaxRetriesCap + 2) :
       <<t, a>> \in mgr.timers /\ <<t, a>> \notin mgr'.timers

\* C9: the timeout callback of a command leaves its child signalled and its
\* status stopped, and a command that is stopped stays stopped: it is not
\* queued again, completed or failed.  (Under SpecTasks, which has neither
\* stop() nor shutdown(), only the timeout callback sets the status stopped.)
C9_TimeoutEndsStopped ==
  [][\A t \in Tasks :
       /\ TimeoutActs(t) =>
            mgr'.procs[t].st # "alive" /\ mgr'.tasks[t].status = "stopped"
       /\ mgr.tasks[t].status = "stopped" => mgr'.tasks[t].status = "stopped"
    ]_vars

\* C10: once init() has read the state file, a task of type schedule never
\* has the status completed, failed or stopped.
C10_ScheduleOnlyEndsCancelled ==
  \A t \in Tasks :
    (mgr.phase # "new" /\ mgr.tasks[t].type = "schedule") =>
      mgr.tasks[t].status \notin {"completed", "failed", "stopped"}


\* C11: a runCommand call made with dedupeRunning while the task returned to
\* an earlier such call has status running returns that same task and
\* creates no task.
C11_DedupeReturnsSameTask ==
  [][Len(mgr'.calls) > Len(mgr.calls) =>
       \A i \in 1..Len(mgr.calls) :
         mgr.tasks[mgr.calls[i]].status = "running" =>
           /\ mgr'.calls[Len(mgr'.calls)] = mgr.calls[i]
           /\ mgr'.nextId = mgr.nextId
    ]_vars


\* the step emits task.command.output for task t
OutputEmitted(t) ==
  /\ Token("outLog", t, FALSE) \in mgr.ioWait
  /\ Token("outLog", t, FALSE) \notin mgr'.ioWait

\* C12: task.command.output of a task is emitted only after its
\* task.command.start (emitted by the launch that spawns the child) and never
\* after its task.command.end.
C12_OutputBetweenStartAndEnd ==
  [][\A t \in Tasks :
       OutputEmitted(t) => mgr.spawned[t] > 0 /\ ~mgr.ended[t]
    ]_vars


QueueEntries(m, t) ==
  Cardinality({i \in 1..Len(m.pendingQueue) : m.pendingQueue[i].taskId = t})

InitToken == Token("init", 0, FALSE)

ShutdownReturned ==
  /\ mgr.phase = "shutdown"
  /\ \A i \in 1..Len(mgr.persistChain) : mgr.persistChain[i].op # "return"

\* C14: once shutdown({stopSchedulesOnly: false}) has returned, no child is
\* left without a terminate signal, and no step spawns a child, be it from
\* the queue, from a retry or from a launch that was under way.
C14_NothingRunsAfterShutdown ==
  [][ShutdownReturned' =>
       /\ \A t \in Tasks : mgr'.procs[t].st # "alive"
       /\ ShutdownReturned => mgr'.spawned = mgr.spawned
    ]_vars


\* C26: a task whose failed run was queued for a retry is not launched
\* again while the retryAt of that retry is in the future.
C26_NoLaunchBeforeRetryAt ==
  [][\A t \in Tasks :
       mgr'.tasks[t].attempts > mgr.tasks[t].attempts => ~mgr.waiting[t]]_vars

\* a task is running its second attempt, launched from the queue after the
\* retryAt of its retry was reached
C26_Witness ==
  \E t \in Tasks :
    /\ mgr.tasks[t].attempts = 2
    /\ mgr.spawned[t] = 2
    /\ mgr.procs[t].st = "alive"
    /\ ~mgr.waiting[t]

\* C28: the timeout timer armed for an attempt of a task marks the task
\* stopped only while that attempt is the one running.
C28_TimeoutStopsItsOwnAttempt ==
  [][\A t \in Tasks, a \in 1..(MaxRetriesCap + 2) :
       (/\ <<t, a>> \in mgr.timers
        /\ <<t, a>> \notin mgr'.timers
        /\ mgr.tasks[t].status # "stopped"
        /\ mgr'.tasks[t].status = "stopped")
         => mgr.procs[t].st = "alive" /\ mgr.procs[t].att = a]_vars

TerminalStatuses == {"completed", "failed", "cancelled", "stopped"}

\* C29: a command task whose status is completed, failed, cancelled or
\* stopped keeps that status.
C29_TerminalStatusIsFinal ==
  [][\A t \in Tasks :
       (mgr.tasks[t].type = "command" /\ mgr.tasks[t].status \in TerminalStatuses)
         => mgr'.tasks[t].status = mgr.tasks[t].status]_vars

\* C27: a command task in the pending queue is launched in the end (no
\* stop and no shutdown being called).
C27_QueuedIsLaunched ==
  \A t \in Tasks :
    InQueue(mgr, t) ~> (~InQueue(mgr, t) /\ mgr.tasks[t].status = "running")

\* the first command failed, waited in the queue for its retryAt and runs
\* again, and the second command, queued meanwhile, has been launched too
C27_Witness ==
  /\ mgr.spawned[1] = 2
  /\ mgr.spawned[2] = 1
  /\ mgr.pendingQueue = <<>>
  /\ mgr.tasks[1].status = "running"

\* ------------------------------------------------- claims on utils/fs.js

\* writeFileAtomic call w has renamed its temp file onto filePath
Renamed(w) == fs.pc[w] \in {"renamed", "done"}

\* C15: whenever the process is killed, and at every other moment, the file
\* at filePath is what it was before the calls or the complete content of a
\* call that has renamed, never a partly written content.
C15_StateFileNeverPartial ==
  \/ fs.files[0] = Complete(0)
  \/ fs.files[0] = Absent /\ \A w \in Writers : ~Renamed(w)
  \/ \E w \in Writers : Renamed(w) /\ fs.files[0] = Complete(w)

\* the process was killed while one call had written part of its temp file
\* and another had renamed its own
C15_Witness ==
  /\ ~fs.alive
  /\ \E w, x \in Writers :
       /\ fs.pc[w] = "open" /\ fs.files[TempPath(w)].len \in 1..(FullLen - 1)
       /\ Renamed(x) /\ fs.files[0] = Complete(x)


\* ---------------------------------------------- claims on the AutonomousLoop

\* C16: once maxConsecutiveFailures ticks in a row have failed (counted from
\* the last applyConfig), no tick calls runtime.handleIncoming until
\* applyConfig is called again.
C16_BreakerStopsTicks ==
  [][(loop.pc = "prep" /\ loop'.pc = "prompt") => ~loop.tripped]_vars

\* two ticks in a row have failed under maxConsecutiveFailures = 2, and a
\* later firing of the timer was skipped
C16_Witness ==
  /\ loop.tripped /\ loop.max = 2 /\ loop.streak = 2
  /\ loop.timer /\ loop.enabled /\ loop.skippedTicks > 0
  /\ loop.lastTick = "disabled"


\* ----------------------------------------------- claims on the NxClawRuntime

\* C17: enforceSessionLimits (idle timeout and LRU) never archives a session
\* key that has an entry in this.activeRuns, that is whose run is in
\* progress.
C17_NeverArchivesActiveLane == rt.archivedActive = {}

C19_FailuresReplyRuntimeError ==
  \A c \in CbIds : rt.pc[c] = "done" => rt.reply[c] \in {"reply", "RuntimeError"}

\* -------------------------------------------------- claims on the MemoryStore

\* C20: a search in mode session_strict with session key S returns only
\* items that were stored under S.
C20_StrictSearchStaysInSession ==
  mem.lastSearch.mode = "session_strict"
    => \A item \in mem.lastSearch.items : item.owner = mem.lastSearch.key

\* C21: when the same turn (same actor, source and content) is appended twice
\* less than 6 hours apart, the second append stores nothing.
C21_SecondAppendStoresNothing ==
  \A i, j \in 1..Len(mem.turns) :
    (/\ i < j
     /\ mem.turns[i].actor = mem.turns[j].actor
     /\ mem.turns[i].source = mem.turns[j].source
     /\ mem.turns[i].tok = mem.turns[j].tok
     /\ mem.turns[j].at - mem.turns[i].at < SixHours)
      => ~mem.turns[j].stored

\* the number of times the entry with an id is held by the raw log or
\* counted by a compaction summary
TimesHeld(id) ==
  Cardinality({i \in 1..Len(mem.rawEntries) : mem.rawEntries[i].id = id})
  + Cardinality({p \in (1..Len(mem.compactEntries)) \X (1..BatchSize) :
                   /\ p[2] <= Len(mem.compactEntries[p[1]])
                   /\ mem.compactEntries[p[1]][p[2]] = id})

\* C30: every entry ever stored is either in the raw log or counted by one
\* compaction summary, and never both or twice.
C30_CompactionKeepsEveryEntry ==
  \A id \in 1..Len(mem.turns) : mem.turns[id].stored => TimesHeld(id) = 1

\* ------------------------------------------------ claims on the ObjectiveQueue

C22_UpdateReturned ==
  /\ oq.returned.op = "update"
  /\ oq.returned.status \in KnownStatuses
  /\ ~oq.returned.overlapped

\* C22: when update of O's id with a status s the queue knows returns, O
\* having been returned by add and no other update of that id having run
\* meanwhile, list() contains exactly one objective with O's id, and it has
\* O's title, description and priority and the status s.
C22_UpdateShowsInList ==
  C22_UpdateReturned
    => LET hits == {i \in 1..Len(List(oq)) : List(oq)[i].id = oq.returned.id}
       IN /\ Cardinality(hits) = 1
          /\ \A i \in hits :
               \E o \in oq.added :
                 /\ o.id = oq.returned.id
                 /\ List(oq)[i] = [o EXCEPT !.status = oq.returned.status]

\* --------------------------------------------- claims on the ChromeController

\* C23: the controller never holds more than maxSessions sessions.
C23_AtMostMaxSessions == Len(chrome.sessions) <= chrome.maxSessions

\* C24: at most one browser started by the controller is running at any time.
C24_AtMostOneBrowser == Cardinality(chrome.running) <= 1

\* --------------------------------------------- claims on the RuntimeEventBus

StrictlyIncreasing(q) == \A i, j \in 1..Len(q) : i < j => q[i] < q[j]

\* C25: every event emitted has a seq greater than those of all events
\* emitted before it, and the ring, what each listener was called with,
\* the pending events and the events file are each in increasing order of
\* seq.
C25_EventsInSeqOrder ==
  /\ StrictlyIncreasing(bus.emitted)
  /\ StrictlyIncreasing(bus.buffer)
  /\ \A l \in Listeners : StrictlyIncreasing(bus.received[l])
  /\ StrictlyIncreasing(bus.pending)
  /\ StrictlyIncreasing(bus.batch)
  /\ StrictlyIncreasing(bus.file)

\* events of two flushes are in the file, the ring has dropped an event, and
\* a listener has been called twice
C25_Witness ==
  /\ Len(bus.file) >= 3
  /\ bus.seq > BufferSize
  /\ \E l \in Listeners : Len(bus.received[l]) >= 2
  /\ Len(bus.buffer) = BufferSize

\* ------------------------------------------- claims on runPromptWithRetry

\* C31: at most one session.prompt call is executing on the session at any
\* time.
C31_OnePromptOutstanding == run.outstanding <= 1

\* C32: one request makes at most maxPromptRetries +
\* maxOverflowCompactionAttempts calls of session.prompt, at most
\* maxOverflowCompactionAttempts of them after a recovery cycle.
C32_PromptCallsBounded ==
  /\ run.calls <= run.maxRetries + run.maxOverflowCompactionAttempts
  /\ run.cycleCalls <= run.maxOverflowCompactionAttempts

\* ------------------------------------ claims on objectives in a final status

\* the status list() shows for the objective of an id
StatusOf(q, id) ==
  LET found == GetById(q, id) IN
  IF found = {} THEN "absent"
  ELSE q.objectives[CHOOSE i \in found : \A j \in found : i <= j].status

\* C33: once the status of an objective is completed, failed or cancelled,
\* only a step of update changes it: markPicked, expireStale, reload and the
\* return of a persist leave it as it was.
C33_FinalStatusOnlyChangedByUpdate ==
  [][\A id \in 1..MaxObjectives :
       (StatusOf(oq, id) \in FINAL_STATUSES /\ StatusOf(oq', id) # StatusOf(oq, id))
         => oq'.updates = oq.updates + 1]_vars

\* ------------------------------------- claims on the re-enabled circuit breaker

\* C34: after an applyConfig that re-enabled a loop whose circuit breaker had
\* tripped, disabledReason is set again only once maxConsecutiveFailures
\* ticks in a row have failed since that applyConfig.
C34_TripsAfterMaxFurtherFailures ==
  (loop.reenabled /\ loop.disabledReason) => loop.tripped

\* ---------------------------------------------------- claims on skipped ticks

\* C35: a tick() call made while this.disabledReason is set or while the
\* tick before it is still in flight (this.running) adds one to skippedTicks,
\* emits autonomous.tick.skip with the reason "disabled" or "runtime_busy",
\* and returns without touching the tick in flight and without calling
\* runtime.handleIncoming.
C35_DisabledOrBusyTickIsSkipped ==
  [][(loop'.lastTick # "none" /\ (loop.disabledReason \/ loop.running))
       => /\ loop'.lastTick = (IF loop.disabledReason THEN "disabled" ELSE "runtime_busy")
          /\ loop'.skippedTicks = loop.skippedTicks + 1
          /\ loop'.pc = loop.pc
          /\ loop'.running = loop.running
          /\ loop'.consecutiveFailures = loop.consecutiveFailures]_vars

\* the timer fired while the tick before was awaiting runtime.handleIncoming,
\* and the call was skipped as runtime_busy
C35_Witness ==
  /\ loop.lastTick = "runtime_busy"
  /\ loop.running
  /\ loop.pc = "prompt"
  /\ ~loop.disabledReason
  /\ loop.skippedTicks > 0

\* ------------------------------------------- claims on the persist chain

\* C36: the writes of the task state file never overlap and follow the order
\* of the persist() calls: at most one writeJson is in progress, it began
\* only after the write of every earlier call had ended, with success or
\* failure, and the writes began in call order.
C36_WritesNeverOverlap ==
  /\ Cardinality({i \in 1..Len(chain.links) : chain.links[i] = "writing"}) <= 1
  /\ \A i \in 1..Len(chain.links) :
       chain.links[i] = "writing" => \A j \in 1..(i - 1) : chain.links[j] \in WriteEnded
  /\ \A k \in 1..Len(chain.started) : chain.started[k] = k

\* the first write has failed, the second is in progress, and a third call
\* is waiting for it
C36_Witness ==
  /\ Len(chain.links) >= 3
  /\ chain.links[1] = "failed"
  /\ chain.links[2] = "writing"
  /\ chain.links[3] = "waiting"

\* ------------------------------------------- claims on foreground runCommand

\* C37: every runCommand call with background false returns: the waiter it
\* registered is resolved in the end, whether the task runs to a terminal
\* status, is stopped, or the manager shuts down while the task is still in
\* the queue.
C37_ForegroundCallReturns ==
  \A t \in Tasks : (t \in mgr.waiters) ~> (t \notin mgr.waiters)

\* ------------------------------------------ claims on what runCommand returns

\* C38: the task a runCommand call with dedupeRunning returns is of type
\* command, never a schedule task.
C38_DedupeReturnsCommandTask ==
  \A i \in 1..Len(mgr.calls) : mgr.tasks[mgr.calls[i]].type = "command"

\* ------------------------------------- claims on the knowledge index

\* C39: a markdown write is not forgotten by a sync in flight: while the
\* files hold a write this.knowledgeChunks was not built from, the index is
\* marked dirty.
C39_WriteDuringSyncStaysDirty ==
  kidx.written > kidx.indexed => kidx.indexDirty

\* C40: once shutdown() has returned, this.knowledgeWatchers holds no open
\* watcher, and none is created later.
C40_NoWatcherAfterShutdown ==
  kidx.shutdownReturned => kidx.knowledgeWatchers = 0

====
